---- MODULE Spec2Model ----
(***************************************************************************)
(* Morse key game: key classification, letter-gap decoding, the Playing /  *)
(* Practice session state machine and the needle controller, as driven by  *)
(* the main loop (MorseApp.run) and the GPIO key callbacks.                *)
(*                                                                         *)
(* Units: every time is an integer number of centiseconds (0.01 s), every  *)
(* needle value an integer number of hundredths.  Strings that the code    *)
(* indexes (words, Morse sequences, nicknames) are sequences of one-       *)
(* character strings.  Optional[float] values and attributes that may be   *)
(* absent (hasattr) are <<>> for None/absent and <<v>> for a value v.      *)
(* Presentation-only fields (cursor_visible, cursor_timer, error_time,     *)
(* bonus_time_received, bonus_amount) are read only by the renderer and    *)
(* are left out.  The key is the GPIO key (GPIOHandler callbacks); the     *)
(* menus are driven by the keyboard (EventHandler).  A handler that ends   *)
(* in an unhandled exception ends the program: MorseApp.run catches only   *)
(* KeyboardInterrupt and main() exits.                                     *)
(***************************************************************************)
EXTENDS Integers, Sequences, FiniteSets, TLC

\* ------------------------------------------------------------------ bounds
MaxTime == 448        \* the clock is advanced only while now <= MaxTime
StartTime == 16       \* value of time.time() when the program is constructed
LongPause == 2400     \* one long idle period (longer than any word time limit)
MaxSeqLen == 3        \* longest pending Morse sequence that is keyed
MaxNickLen == 1       \* longest nickname that is typed
MaxPracticeTime == 208  \* in Practice the clock is advanced only while now <= MaxPracticeTime
MaxWorkers == 2        \* most transition worker threads alive at a time
MaxCommands == 4       \* most commands sent to the megohmmeter on its own
MaxMsgLen == 4         \* longest message handed to encode_message
MaxScores == 3         \* most records on the two leaderboards together
MaxWordLen == 4        \* longest word handed to start_word_timer on its own
MaxPress == 48        \* longest time the key is held down

\* --------------------------------------------------------- core/config.py
MEGOHMMETER_BASELINE_FORCE == 5
MEGOHMMETER_DOT_AMPLITUDE == 60
MEGOHMMETER_DASH_AMPLITUDE == 100
DIT == 16
DOT_DURATION == DIT
DASH_DURATION == 3 * DIT
LETTER_GAP == 2 * DASH_DURATION
DEBOUNCE_TIME == 0
WORD_TIME_LIMIT == 1000

DIFFICULTY_SETTINGS ==
    [easy |-> [word_time_limit |-> 1500, time_per_letter |-> 250,
               o_letter_bonus |-> 150, game_duration |-> 12000],
     hard |-> [word_time_limit |-> 800, time_per_letter |-> 200,
               o_letter_bonus |-> 100, game_duration |-> 9000,
               time_bonus_every_words |-> 3, time_bonus_amount |-> 1500]]

\* dict.get(key, 0)
SettingsGet(settings, key) == IF key \in DOMAIN settings THEN settings[key] ELSE 0

\* --------------------------------------------------------------- helpers
None == <<>>
Some(v) == <<v>>
Val(o) == o[1]

Max(a, b) == IF a >= b THEN a ELSE b
Abs(x) == IF x < 0 THEN 0 - x ELSE x
InSeq(x, s) == \E i \in DOMAIN s : s[i] = x
Repeat(x, n) == [i \in 1..n |-> x]

\* str.upper() / str.lower() on the characters that occur in the model
UpperChar(c) == IF c = "a" THEN "A" ELSE IF c = "o" THEN "O" ELSE c
LowerChar(c) == IF c = "A" THEN "a" ELSE IF c = "O" THEN "o" ELSE c
Upper(s) == [i \in DOMAIN s |-> UpperChar(s[i])]
Lower(s) == [i \in DOMAIN s |-> LowerChar(s[i])]

\* str.strip(): drop leading and trailing blanks
RECURSIVE LStrip(_)
LStrip(s) == IF s # <<>> /\ Head(s) = " " THEN LStrip(Tail(s)) ELSE s
RECURSIVE RStrip(_)
RStrip(s) == IF s # <<>> /\ s[Len(s)] = " " THEN RStrip(SubSeq(s, 1, Len(s) - 1)) ELSE s
Strip(s) == RStrip(LStrip(s))

\* str.count(ch)
Count(s, ch) == Cardinality({i \in DOMAIN s : s[i] = ch})

\* -------------------------------------------------- core/morse_decoder.py
\* MORSE_CODE_DICT in source order, as <<character, code>> pairs
MORSE_CODE_DICT ==
    << <<"A", <<".","-">> >>,            <<"B", <<"-",".",".",".">> >>,
       <<"C", <<"-",".","-",".">> >>,    <<"D", <<"-",".",".">> >>,
       <<"E", <<".">> >>,                <<"F", <<".",".","-",".">> >>,
       <<"G", <<"-","-",".">> >>,        <<"H", <<".",".",".",".">> >>,
       <<"I", <<".",".">> >>,            <<"J", <<".","-","-","-">> >>,
       <<"K", <<"-",".","-">> >>,        <<"L", <<".","-",".",".">> >>,
       <<"M", <<"-","-">> >>,            <<"N", <<"-",".">> >>,
       <<"O", <<"-","-","-">> >>,        <<"P", <<".","-","-",".">> >>,
       <<"Q", <<"-","-",".","-">> >>,    <<"R", <<".","-",".">> >>,
       <<"S", <<".",".",".">> >>,        <<"T", <<"-">> >>,
       <<"U", <<".",".","-">> >>,        <<"V", <<".",".",".","-">> >>,
       <<"W", <<".","-","-">> >>,        <<"X", <<"-",".",".","-">> >>,
       <<"Y", <<"-",".","-","-">> >>,    <<"Z", <<"-","-",".",".">> >>,
       <<"1", <<".","-","-","-","-">> >>, <<"2", <<".",".","-","-","-">> >>,
       <<"3", <<".",".",".","-","-">> >>, <<"4", <<".",".",".",".","-">> >>,
       <<"5", <<".",".",".",".",".">> >>, <<"6", <<"-",".",".",".",".">> >>,
       <<"7", <<"-","-",".",".",".">> >>, <<"8", <<"-","-","-",".",".">> >>,
       <<"9", <<"-","-","-","-",".">> >>, <<"0", <<"-","-","-","-","-">> >>,
       <<", ", <<"-","-",".",".","-","-">> >>, <<".", <<".","-",".","-",".","-">> >>,
       <<"?", <<".",".","-","-",".",".">> >>,  <<"/", <<"-",".",".","-",".">> >>,
       <<"-", <<"-",".",".",".",".","-">> >>,  <<"(", <<"-",".","-","-",".">> >>,
       <<")", <<"-",".","-","-",".","-">> >> >>

\* REVERSE_MORSE_CODE_DICT.get(code, ''): the dict comprehension keeps the
\* last key of a duplicated code
ReverseGet(code) ==
    LET hits == {i \in DOMAIN MORSE_CODE_DICT : MORSE_CODE_DICT[i][2] = code}
    IN IF hits = {} THEN ""
       ELSE MORSE_CODE_DICT[CHOOSE i \in hits : \A j \in hits : j <= i][1]

\* MorseDecoder._validate_morse_char
ValidateMorseChar(code) ==
    code # <<>> /\ \A i \in DOMAIN code : code[i] \in {".", "-"}

\* MorseDecoder.decode: '' for an empty, malformed or unknown code
Decode(code) ==
    IF code = <<>> THEN ""
    ELSE IF ~ValidateMorseChar(code) THEN ""
    ELSE ReverseGet(code)

\* a key of MORSE_CODE_DICT (or the '' of a failed lookup) as the characters
\* it is made of
KeyChars(key) ==
    IF key = "" THEN <<>> ELSE IF key = ", " THEN <<",", " ">> ELSE <<key>>

\* char in MORSE_CODE_DICT and MORSE_CODE_DICT[char]
InDict(char) == \E i \in DOMAIN MORSE_CODE_DICT : MORSE_CODE_DICT[i][1] = char
DictGet(char) ==
    MORSE_CODE_DICT[CHOOSE i \in DOMAIN MORSE_CODE_DICT : MORSE_CODE_DICT[i][1] = char][2]

\* sep.join(list)
RECURSIVE Join(_, _)
Join(list, sep) ==
    IF list = <<>> THEN <<>>
    ELSE IF Len(list) = 1 THEN list[1]
    ELSE list[1] \o sep \o Join(Tail(list), sep)

\* the list morse_code that MorseDecoder.encode builds from text.upper()
RECURSIVE EncodeList(_)
EncodeList(text) ==
    IF text = <<>> THEN <<>>
    ELSE (IF InDict(Head(text)) THEN <<DictGet(Head(text))>>
          ELSE IF Head(text) = " " THEN << <<"/">> >>
          ELSE <<>>) \o EncodeList(Tail(text))

\* MorseDecoder.encode
Encode(text) == Join(EncodeList(Upper(text)), <<" ">>)

\* the pieces MorseDecoder.encode_message appends for text.upper(): a code and
\* a blank for a character of the table, and one more blank at every blank of
\* the text (split(' ') ends a word there and another word follows)
RECURSIVE EncodeMessageParts(_)
EncodeMessageParts(text) ==
    IF text = <<>> THEN <<>>
    ELSE (IF Head(text) = " " THEN <<" ">>
          ELSE IF InDict(Head(text)) THEN DictGet(Head(text)) \o <<" ">>
          ELSE <<>>) \o EncodeMessageParts(Tail(text))

\* MorseDecoder.encode_message
EncodeMessage(text) ==
    IF text = <<>> THEN <<>> ELSE Strip(EncodeMessageParts(Upper(text)))

\* the loop of MorseDecoder.decode_message over the letters still to read
RECURSIVE DecodeMessageLoop(_, _, _, _)
DecodeMessageLoop(rest, decipher, citext, space_count) ==
    IF rest = <<>> THEN decipher
    ELSE IF Head(rest) # " "
    THEN DecodeMessageLoop(Tail(rest), decipher, Append(citext, Head(rest)), 0)
    ELSE IF space_count + 1 = 2
    THEN DecodeMessageLoop(Tail(rest), Append(decipher, " "), citext, space_count + 1)
    ELSE IF citext # <<>>
    THEN DecodeMessageLoop(Tail(rest), decipher \o KeyChars(ReverseGet(citext)),
                           <<>>, space_count + 1)
    ELSE DecodeMessageLoop(Tail(rest), decipher, citext, space_count + 1)

\* MorseDecoder.decode_message
DecodeMessage(morse_message) ==
    IF morse_message = <<>> THEN <<>>
    ELSE Strip(DecodeMessageLoop(Append(morse_message, " "), <<>>, <<>>, 0))

\* ------------------------------------------------- core/word_generator.py
\* a part of WordGenerator.easy_words / hard_words (after the length filter)
easy_words == << <<"I","T">>, <<"N","O">> >>
hard_words == << <<"T","A","G">> >>

\* random.choice(string.ascii_uppercase): a part of the alphabet
PracticeLetters == <<"E", "T">>

\* the random draws of one handler
RandomDraws == 0..1
Choice(s, rnd) == s[(rnd % Len(s)) + 1]


\* ------------------------------------------------------------------ state
VARIABLES
    now,             \* time.time()
    app,             \* MorseApp.run: "running", "exited" (quit) or "crashed"
    state_manager,   \* GameStateManager: current_state, menu and nickname fields
    game_data,       \* GameStateManager.game_data (GameData)
    controller,      \* GameController: current_sequence and its timers
    word_generator,  \* GameController.word_generator
    megohmmeter,     \* GameController.megohmmeter (real or mock controller)
    high_scores,     \* GameController.high_scores.scores
    sm_high_scores,  \* GameStateManager.high_score_manager.scores
    gpio,            \* GPIOHandler: is_pressed, press_start_time
    decoded_char,    \* result of the decoder.decode call made by the last
                     \* handler, <<>> when the handler made no such call
    codec,           \* a MorseDecoder used on its own: the last call, its text,
                     \* the Morse string and what was decoded from it
    actuator         \* the threads of the megohmmeter controller: the command
                     \* that waits in its join, the live transition workers,
                     \* the command sent last

vars == <<now, app, state_manager, game_data, controller, word_generator,
          megohmmeter, high_scores, sm_high_scores, gpio, decoded_char, codec,
          actuator>>

\* GameData.__init__; streak_count and practice_next_letter_time are
\* attributes no constructor sets
GameDataInit ==
    [nickname |-> <<>>, difficulty |-> "easy", current_word |-> <<>>,
     words_completed |-> 0, score |-> 0, time_remaining |-> 12000,
     game_start_time |-> None, letter_colors |-> <<>>,
     current_letter_index |-> 0, letter_errors |-> <<>>, total_errors |-> 0,
     word_start_time |-> None, word_time_limit |-> WORD_TIME_LIMIT,
     practice_letter |-> "", practice_letter_color |-> "white",
     practice_completed |-> 0, practice_errors |-> 0,
     streak_count |-> None, practice_next_letter_time |-> None]

\* MegohmmeterController.__init__ followed by _initialize_megohmmeter; the
\* real controller's initialize() switches the pull-back coil on with the
\* constructor's baseline_force (0.25) before the configured one is stored
MegohmmeterInit(mock) ==
    [mock |-> mock, is_key_pressed |-> FALSE, transition_running |-> FALSE,
     transition_thread |-> None, current_value |-> 0,
     pullback_value |-> IF mock THEN 0 ELSE 25,
     baseline_force |-> MEGOHMMETER_BASELINE_FORCE,
     dot_amplitude |-> MEGOHMMETER_DOT_AMPLITUDE,
     dash_amplitude |-> MEGOHMMETER_DASH_AMPLITUDE]

\* the program after construction; both HighScoreManager instances (the
\* controller's and the state manager's) load the same scores file
ConstructedWith(scores, twin) ==
    /\ now = StartTime
    /\ app = "running"
    /\ state_manager = [current_state |-> "main_menu", selected_menu_index |-> 0,
                        selected_difficulty_index |-> 0, nickname_input |-> <<>>,
                        nickname_error |-> FALSE]
    /\ game_data = GameDataInit
    /\ controller = [current_sequence |-> <<>>, last_element_time |-> None,
                     last_timeout_check |-> StartTime,
                     last_gpio_state_check |-> None, pass |-> None]
    /\ word_generator = [used_words |-> <<>>, current_difficulty |-> "easy"]
    /\ \E mock \in BOOLEAN : megohmmeter = MegohmmeterInit(mock)
    /\ high_scores = scores
    /\ sm_high_scores = scores
    /\ gpio = [is_pressed |-> FALSE, press_start_time |-> 0, callback |-> None]
    /\ decoded_char = None
    /\ codec = [call |-> "none", text |-> <<>>, morse |-> <<>>, decoded |-> <<>>]
    /\ actuator = [call |-> "none", workers |-> [k \in 1..MaxWorkers |-> None],
                   commands |-> 0, last |-> "none", twin |-> twin]
Constructed(scores) == ConstructedWith(scores, None)

\* the first run: there is no scores file yet
Init == Constructed([easy |-> <<>>, hard |-> <<>>])

\* The handlers below are functions on the record of all objects a handler
\* can touch; "raised" is set when the handler ends in an unhandled exception,
\* "quit" when process_events returns False.
World ==
    [sm |-> state_manager, gd |-> game_data, gc |-> controller,
     wg |-> word_generator, meg |-> megohmmeter, hs |-> high_scores,
     dec |-> None, raised |-> FALSE, quit |-> FALSE]


Raise(W) == [W EXCEPT !.raised = TRUE]

\* ------------------------------------------ hardware/megohmmeter_control.py
\* _set_pullback_force / _disable_pullback_force: the mock only prints
SetPullbackForce(m) ==
    IF m.mock THEN m ELSE [m EXCEPT !.pullback_value = m.baseline_force]
DisablePullbackForce(m) ==
    IF m.mock THEN m ELSE [m EXCEPT !.pullback_value = 0]

\* _set_meter_value (the real controller's meter_device exists once
\* initialize() has succeeded)
SetMeterValue(m, value) == [m EXCEPT !.current_value = value]

\* transition_running = False, then a bounded join of the worker thread
StopTransition(m) == [m EXCEPT !.transition_running = FALSE]

\* key_pressed (real and mock)
KeyPressed(m) ==
    SetMeterValue(DisablePullbackForce(
        StopTransition([m EXCEPT !.is_key_pressed = TRUE])), m.dot_amplitude)

\* key_released (real and mock)
KeyReleased(m) ==
    SetPullbackForce(SetMeterValue(
        StopTransition([m EXCEPT !.is_key_pressed = FALSE]), 0))

\* _smooth_transition_to: stop a running worker, start a new one
SmoothTransitionTo(m, target_value, duration) ==
    [(IF m.transition_running THEN StopTransition(m) ELSE m)
        EXCEPT !.transition_running = TRUE,
               !.transition_thread =
                   Some([target_value |-> target_value, duration |-> duration])]

\* a variant of apply_dot / apply_dash without the test of is_key_pressed
ApplyAmplitudeUnguarded(m, target_value, duration) ==
    IF m.mock THEN [m EXCEPT !.current_value = target_value]
    ELSE SmoothTransitionTo(DisablePullbackForce(m), target_value, duration)

\* apply_dot / apply_dash: nothing unless the key is down; the real
\* controller starts a transition worker, the mock sets the value at once
ApplyAmplitude(m, target_value, duration) ==
    IF ~m.is_key_pressed THEN m
    ELSE IF m.mock THEN [m EXCEPT !.current_value = target_value]
    ELSE SmoothTransitionTo(DisablePullbackForce(m), target_value, duration)
ApplyDot(m) == ApplyAmplitude(m, m.dot_amplitude, 15)
ApplyDash(m) == ApplyAmplitude(m, m.dash_amplitude, 25)

\* force_reset: the real controller switches the meter coil off (value 0),
\* the mock sets the value to baseline_force
ForceReset(m) ==
    LET m1 == StopTransition([m EXCEPT !.is_key_pressed = FALSE])
    IN IF m.mock THEN [m1 EXCEPT !.current_value = m.baseline_force]
       ELSE SetPullbackForce(SetMeterValue(m1, 0))

\* _transition_worker_to: steps = int(duration * 50), at least 2 (duration in
\* hundredths of a second)
TransitionSteps(duration) == Max(2, duration \div 2)

\* a variant of the worker's new_value that runs one step ahead
TransitionValueOvershoot(start_value, target_value, i, steps) ==
    start_value + ((target_value - start_value) * (i + 2)) \div steps

\* _transition_worker_to: new_value = start_value + value_diff * progress with
\* progress = (i + 1) / steps, in hundredths
TransitionValue(start_value, target_value, i, steps) ==
    start_value + ((target_value - start_value) * (i + 1)) \div steps

\* The commands of the controller in two parts, before and after the join of
\* the worker thread (key_pressed, key_released, force_reset) or before and
\* after the start of the new worker (apply_dot, apply_dash on the real
\* controller while the key is down).  CommandWaits tells whether the command
\* has a second part.
CommandWaits(m, cmd) ==
    cmd \in {"apply_dot", "apply_dash"} => (m.is_key_pressed /\ ~m.mock)
BeginCommand(m, cmd) ==
    CASE cmd = "key_pressed" -> StopTransition([m EXCEPT !.is_key_pressed = TRUE])
      [] cmd \in {"key_released", "force_reset"} ->
             StopTransition([m EXCEPT !.is_key_pressed = FALSE])
      [] OTHER ->
             IF ~m.is_key_pressed THEN m
             ELSE IF m.mock
             THEN [m EXCEPT !.current_value = IF cmd = "apply_dot" THEN m.dot_amplitude
                                              ELSE m.dash_amplitude]
             ELSE IF m.transition_running THEN StopTransition(DisablePullbackForce(m))
             ELSE DisablePullbackForce(m)
EndCommand(m, cmd) ==
    CASE cmd = "key_pressed" -> SetMeterValue(DisablePullbackForce(m), m.dot_amplitude)
      [] cmd = "key_released" -> SetPullbackForce(SetMeterValue(m, 0))
      [] cmd = "force_reset" ->
             IF m.mock THEN [m EXCEPT !.current_value = m.baseline_force]
             ELSE SetPullbackForce(SetMeterValue(m, 0))
      [] cmd = "apply_dot" ->
             [m EXCEPT !.transition_running = TRUE,
                       !.transition_thread =
                           Some([target_value |-> m.dot_amplitude, duration |-> 15])]
      [] OTHER ->
             [m EXCEPT !.transition_running = TRUE,
                       !.transition_thread =
                           Some([target_value |-> m.dash_amplitude, duration |-> 25])]

\* the thread that _smooth_transition_to starts for m.transition_thread;
\* stop_requested records that a command has cleared transition_running
\* while the thread was running
NewWorker(m) ==
    [target_value |-> Val(m.transition_thread).target_value,
     steps |-> TransitionSteps(Val(m.transition_thread).duration),
     start_value |-> None, i |-> 0, pc |-> "start", stop_requested |-> FALSE]

\* one step of a transition worker on the controller: it reads start_value,
\* tests transition_running at the head of the loop, writes the new value, or
\* leaves the loop and clears transition_running
WorkerController(m, w) ==
    CASE w.pc = "write" ->
             [m EXCEPT !.current_value =
                 TransitionValue(Val(w.start_value), w.target_value, w.i, w.steps)]
      [] w.pc = "exit" -> [m EXCEPT !.transition_running = FALSE]
      [] OTHER -> m
WorkerAfter(m, w) ==
    CASE w.pc = "start" -> Some([w EXCEPT !.start_value = Some(m.current_value),
                                          !.pc = "check"])
      [] w.pc = "check" -> Some([w EXCEPT !.pc = IF m.transition_running /\ w.i < w.steps
                                                 THEN "write" ELSE "exit"])
      [] w.pc = "write" -> Some([w EXCEPT !.i = w.i + 1, !.pc = "check"])
      [] OTHER -> None

\* ------------------------------------------------- core/word_generator.py
\* WordGenerator.set_difficulty followed by reset()
SetGeneratorDifficulty(wg, difficulty) ==
    [used_words |-> <<>>,
     current_difficulty |-> IF difficulty \in {"easy", "hard"}
                            THEN difficulty ELSE wg.current_difficulty]

\* the body of WordGenerator.get_random_word once word_list has been selected:
\* [word, wg] for the random draw rnd
GetRandomWordIn(wg, word_list, rnd) ==
    LET unused == SelectSeq(word_list, LAMBDA w : ~InSeq(w, wg.used_words))
        used0 == IF unused = <<>> THEN <<>> ELSE wg.used_words
        available_words == IF unused = <<>> THEN word_list ELSE unused
        word == Upper(Choice(available_words, rnd))
        used1 == Append(used0, word)
        used2 == IF Len(used1) > 20 THEN SubSeq(used1, Len(used1) - 9, Len(used1))
                 ELSE used1
    IN [word |-> word, wg |-> [wg EXCEPT !.used_words = used2]]

\* WordGenerator.get_random_word: [word, wg] for the random draw rnd
GetRandomWord(wg, rnd) ==
    GetRandomWordIn(wg, IF wg.current_difficulty = "easy" THEN easy_words
                        ELSE hard_words, rnd)

\* ----------------------------------------------------- core/game_state.py
\* GameStateManager.get_difficulty_settings
GetDifficultySettings(gd) ==
    IF gd.difficulty \in DOMAIN DIFFICULTY_SETTINGS
    THEN DIFFICULTY_SETTINGS[gd.difficulty] ELSE DIFFICULTY_SETTINGS["easy"]

\* a variant of the word time limit that takes time off for the letter O
WordTimeLimitPenalty(settings, word) ==
    settings["word_time_limit"] + Len(word) * settings["time_per_letter"]
        - Count(Upper(word), "O") * settings["o_letter_bonus"]

\* a variant of the word time limit without the bonus for the letter O
WordTimeLimitNoBonus(settings, word) ==
    settings["word_time_limit"] + Len(word) * settings["time_per_letter"]

\* the word time limit computed by GameStateManager.start_word_timer
WordTimeLimit(settings, word) ==
    settings["word_time_limit"] + Len(word) * settings["time_per_letter"]
        + Count(Upper(word), "O") * settings["o_letter_bonus"]

\* GameStateManager.start_word_timer at time t
StartWordTimer(gd, word, t) ==
    [gd EXCEPT !.word_start_time = Some(t),
               !.word_time_limit = IF word # <<>>
                                   THEN WordTimeLimit(GetDifficultySettings(gd), word)
                                   ELSE WORD_TIME_LIMIT]

\* GameStateManager.is_word_time_expired at time t
IsWordTimeExpired(gd, t) ==
    IF gd.word_start_time = None THEN FALSE
    ELSE (t - Val(gd.word_start_time)) > gd.word_time_limit

\* GameStateManager.set_difficulty
SetDifficulty(gd, difficulty) ==
    IF difficulty \in {"easy", "hard"}
    THEN [gd EXCEPT !.difficulty = difficulty,
                    !.time_remaining = DIFFICULTY_SETTINGS[difficulty]["game_duration"]]
    ELSE gd

\* a new GameData() that keeps the difficulty (change_state, confirm_nickname)
FreshGameData(gd) == [GameDataInit EXCEPT !.difficulty = gd.difficulty]

\* GameStateManager.change_state at time t
ChangeState(W, new_state, t) ==
    LET W1 == [W EXCEPT !.sm.current_state = new_state]
    IN CASE new_state = "main_menu" -> [W1 EXCEPT !.sm.selected_menu_index = 0]
         [] new_state = "difficulty_select" ->
                [W1 EXCEPT !.sm.selected_difficulty_index = 0]
         [] new_state = "nickname_input" -> [W1 EXCEPT !.sm.nickname_input = <<>>]
         [] new_state = "playing" ->
                [W1 EXCEPT !.gd = [(IF W.gd.nickname = <<>> THEN FreshGameData(W.gd)
                                    ELSE W.gd) EXCEPT !.game_start_time = Some(t)]]
         [] new_state = "practice" ->
                [W1 EXCEPT !.gd.practice_completed = 0, !.gd.practice_errors = 0]
         [] OTHER -> W1

\* HighScoreManager.is_nickname_available(nickname) over all difficulties
IsNicknameAvailable(scores, nickname) ==
    \A d \in DOMAIN scores : \A i \in DOMAIN scores[d] :
        Lower(Strip(scores[d][i].nickname)) # Strip(Lower(nickname))


\* ---------------------------------------------------- data/high_scores.py
\* the sort key of HighScoreManager.add_score
SortKey(r) == <<r.score, 0 - r.words_completed, 0 - r.errors, r.time_taken>>

\* Python's tuple comparison a < b
TupleLess(a, b) ==
    \E i \in DOMAIN a : a[i] < b[i] /\ \A j \in 1..(i - 1) : a[j] = b[j]

\* list.sort(key=SortKey, reverse=True): descending and stable
InsertDescending(sorted, e) ==
    LET smaller == {i \in DOMAIN sorted : TupleLess(SortKey(sorted[i]), SortKey(e))}
        at == IF smaller = {} THEN Len(sorted) + 1
              ELSE CHOOSE i \in smaller : \A j \in smaller : i <= j
    IN SubSeq(sorted, 1, at - 1) \o <<e>> \o SubSeq(sorted, at, Len(sorted))
RECURSIVE SortDescending(_)
SortDescending(s) ==
    IF s = <<>> THEN <<>>
    ELSE InsertDescending(SortDescending(SubSeq(s, 1, Len(s) - 1)), s[Len(s)])

\* HighScoreManager.add_score (the date fields are left out)
AddScore(scores, nickname, score, words_completed, time_taken, errors, difficulty) ==
    LET d == IF difficulty \in DOMAIN scores THEN difficulty ELSE "easy"
        score_entry == [nickname |-> nickname, score |-> score,
                        words_completed |-> words_completed,
                        time_taken |-> time_taken, errors |-> errors,
                        difficulty |-> d]
    IN [scores EXCEPT ![d] = SortDescending(Append(@, score_entry))]

\* HighScoreManager.get_rank
GetRank(scores, score, words_completed, errors, difficulty) ==
    LET d == IF difficulty \in DOMAIN scores THEN difficulty ELSE "easy"
        better_scores ==
            {i \in DOMAIN scores[d] :
                \/ scores[d][i].score > score
                \/ scores[d][i].score = score
                   /\ scores[d][i].words_completed > words_completed
                \/ scores[d][i].score = score
                   /\ scores[d][i].words_completed = words_completed
                   /\ scores[d][i].errors < errors}
    IN IF scores[d] = <<>> THEN 1 ELSE Cardinality(better_scores) + 1

\* ------------------------------------------------ core/game_controller.py
\* a variant of the dot/dash decision that puts the boundary on the dot side
ClassifyBoundaryDot(press_duration) ==
    IF 2 * press_duration <= DOT_DURATION + DASH_DURATION THEN "." ELSE "-"

\* the dot/dash decision of on_key_release and on_practice_key_release
Classify(press_duration) ==
    IF 2 * press_duration < DOT_DURATION + DASH_DURATION THEN "." ELSE "-"

\* a variant of the letter-gap test that fires after one dit
LetterGapElapsedAfterDit(t, last_element_time) == t - last_element_time >= DIT

\* the letter-gap test of check_timeouts and check_practice_timeouts
LetterGapElapsed(t, last_element_time) == t - last_element_time >= LETTER_GAP

\* a variant of start_new_game that keeps the error total of the last session
StartNewGameKeepsErrors(W, rnd, t) ==
    LET settings == GetDifficultySettings(W.gd)
        pick == GetRandomWord(SetGeneratorDifficulty(W.wg, W.gd.difficulty), rnd)
        gd1 == [W.gd EXCEPT !.current_word = pick.word,
                            !.letter_colors = Repeat("white", Len(pick.word)),
                            !.current_letter_index = 0,
                            !.letter_errors = <<>>,
                            !.words_completed = 0,
                            !.score = 0,
                            !.time_remaining = settings["game_duration"],
                            !.game_start_time = Some(t)]
        W1 == [W EXCEPT !.meg = ForceReset(W.meg),
                        !.wg = pick.wg,
                        !.gd = StartWordTimer(gd1, pick.word, t),
                        !.gc.current_sequence = <<>>,
                        !.gc.last_timeout_check = t]
    IN ChangeState(W1, "playing", t)

\* GameController.start_new_game at time t
StartNewGame(W, rnd, t) ==
    LET settings == GetDifficultySettings(W.gd)
        pick == GetRandomWord(SetGeneratorDifficulty(W.wg, W.gd.difficulty), rnd)
        gd1 == [W.gd EXCEPT !.current_word = pick.word,
                            !.letter_colors = Repeat("white", Len(pick.word)),
                            !.current_letter_index = 0,
                            !.letter_errors = <<>>,
                            !.words_completed = 0,
                            !.score = 0,
                            !.time_remaining = settings["game_duration"],
                            !.total_errors = 0,
                            !.game_start_time = Some(t)]
        W1 == [W EXCEPT !.meg = ForceReset(W.meg),
                        !.wg = pick.wg,
                        !.gd = StartWordTimer(gd1, pick.word, t),
                        !.gc.current_sequence = <<>>,
                        !.gc.last_timeout_check = t]
    IN ChangeState(W1, "playing", t)

\* GameController._generate_practice_letter
GeneratePracticeLetter(gd, rnd) ==
    [gd EXCEPT !.practice_letter = Choice(PracticeLetters, rnd),
               !.practice_letter_color = "white"]

\* GameController.start_practice_mode at time t
StartPracticeMode(W, rnd, t) ==
    LET gd1 == [W.gd EXCEPT !.practice_completed = 0, !.practice_errors = 0]
        W1 == [W EXCEPT !.meg = ForceReset(W.meg),
                        !.gd = GeneratePracticeLetter(gd1, rnd),
                        !.gc.current_sequence = <<>>,
                        !.gc.last_timeout_check = t]
    IN ChangeState(W1, "practice", t)

\* GameController.on_key_press / on_practice_key_press
OnKeyPress(W, mode) ==
    IF W.sm.current_state = mode THEN [W EXCEPT !.meg = KeyPressed(W.meg)] ELSE W

\* a variant of the release handlers that stamps last_element_time before the
\* debounce test
OnKeyReleaseStampsFirst(W, mode, press_duration, t, debounce) ==
    IF W.sm.current_state # mode THEN W
    ELSE LET W1 == [W EXCEPT !.meg = KeyReleased(W.meg),
                             !.gc.last_element_time = Some(t)]
         IN IF press_duration < debounce THEN W1
            ELSE LET symbol == Classify(press_duration)
                 IN [W1 EXCEPT !.gc.current_sequence = Append(@, symbol),
                               !.meg = IF symbol = "." THEN ApplyDot(W1.meg)
                                       ELSE ApplyDash(W1.meg)]

\* GameController.on_key_release / on_practice_key_release (the two bodies
\* differ only in the mode they test) at time t, with the value debounce the
\* handler imports from config as DEBOUNCE_TIME
OnKeyReleaseDebounced(W, mode, press_duration, t, debounce) ==
    IF W.sm.current_state # mode THEN W
    ELSE LET W1 == [W EXCEPT !.meg = KeyReleased(W.meg)]
         IN IF press_duration < debounce THEN W1
            ELSE LET symbol == Classify(press_duration)
                 IN [W1 EXCEPT !.gc.current_sequence = Append(@, symbol),
                               !.meg = IF symbol = "." THEN ApplyDot(W1.meg)
                                       ELSE ApplyDash(W1.meg),
                               !.gc.last_element_time = Some(t)]

\* the release handlers under the shipped configuration
OnKeyRelease(W, mode, press_duration, t) ==
    OnKeyReleaseDebounced(W, mode, press_duration, t, DEBOUNCE_TIME)

\* GameController._word_completed: words_completed is incremented, then
\* state_manager.increment_streak() is called; GameStateManager defines no
\* such method, the call raises AttributeError and the rest is not reached
WordCompleted(W) == Raise([W EXCEPT !.gd.words_completed = @ + 1])

\* GameController._word_time_expired: state_manager.reset_streak() is not
\* defined either, the call raises AttributeError before _get_next_word
WordTimeExpired(W) == Raise(W)

\* a variant of the wrong-letter branch that skips the mistyped letter
WrongLetterSkips(W) ==
    LET i == W.gd.current_letter_index
        le == W.gd.letter_errors
        error_count == (IF i \in DOMAIN le THEN le[i] ELSE 0) + 1
    IN [W EXCEPT !.gd.letter_errors =
                     [k \in (DOMAIN le) \cup {i} |-> IF k = i THEN error_count ELSE le[k]],
                 !.gd.total_errors = @ + 1,
                 !.gd.letter_colors[i + 1] = "red",
                 !.gd.current_letter_index = i + 1]

\* the wrong-letter branch of check_morse_input
WrongLetter(W) ==
    LET i == W.gd.current_letter_index
        le == W.gd.letter_errors
        error_count == (IF i \in DOMAIN le THEN le[i] ELSE 0) + 1
    IN [W EXCEPT !.gd.letter_errors =
                     [k \in (DOMAIN le) \cup {i} |-> IF k = i THEN error_count ELSE le[k]],
                 !.gd.total_errors = @ + 1,
                 !.gd.letter_colors[i + 1] = "red"]

\* a variant of the correct-letter branch that moves on without marking the
\* letter
CorrectLetterUnmarked(W) ==
    LET i == W.gd.current_letter_index
        W1 == [W EXCEPT !.gd.current_letter_index = i + 1]
    IN IF i + 1 >= Len(W.gd.current_word) THEN WordCompleted(W1) ELSE W1

\* the correct-letter branch of check_morse_input
CorrectLetter(W) ==
    LET i == W.gd.current_letter_index
        W1 == [W EXCEPT !.gd.letter_colors[i + 1] = "green",
                        !.gd.current_letter_index = i + 1]
    IN IF i + 1 >= Len(W.gd.current_word) THEN WordCompleted(W1) ELSE W1

\* the end of both letter branches of check_morse_input
ClearSequence(W) ==
    IF W.raised THEN W ELSE [W EXCEPT !.gc.current_sequence = <<>>]

\* a variant of check_morse_input that counts an unknown pattern as a wrong
\* letter
CheckDecodedCharUnknownIsError(W, d) ==
    IF W.gd.current_letter_index >= Len(W.gd.current_word) THEN W
    ELSE ClearSequence(IF d = W.gd.current_word[W.gd.current_letter_index + 1]
                       THEN CorrectLetter(W) ELSE WrongLetter(W))

\* check_morse_input once the pending sequence has been decoded as d
CheckDecodedChar(W, d) ==
    IF d = "" THEN [W EXCEPT !.gc.current_sequence = <<>>]
    ELSE IF W.gd.current_letter_index >= Len(W.gd.current_word) THEN W
    ELSE ClearSequence(IF d = W.gd.current_word[W.gd.current_letter_index + 1]
                       THEN CorrectLetter(W) ELSE WrongLetter(W))

\* GameController.check_morse_input
CheckMorseInput(W) ==
    IF W.gc.current_sequence = <<>> \/ W.sm.current_state # "playing" THEN W
    ELSE CheckDecodedChar([W EXCEPT !.dec = Some(Decode(W.gc.current_sequence))],
                          Decode(W.gc.current_sequence))

\* GameController.check_practice_morse_input at time t
CheckPracticeMorseInput(W, t) ==
    IF W.gc.current_sequence = <<>> \/ W.sm.current_state # "practice" THEN W
    ELSE LET d == Decode(W.gc.current_sequence)
             W1 == [W EXCEPT !.dec = Some(d), !.gc.current_sequence = <<>>]
         IN IF d = "" THEN W1
            ELSE IF d = W.gd.practice_letter
            THEN [W1 EXCEPT !.gd.practice_letter_color = "green",
                            !.gd.practice_completed = @ + 1,
                            !.gd.practice_next_letter_time = Some(t + 75)]
            ELSE [W1 EXCEPT !.gd.practice_letter_color = "red",
                            !.gd.practice_errors = @ + 1]

\* a variant of clear_current_input that also takes the dropped errors off
\* total_errors
ClearCurrentInputForgives(W) ==
    IF W.sm.current_state # "playing" THEN W
    ELSE LET i == W.gd.current_letter_index
             le == W.gd.letter_errors
             W1 == [W EXCEPT !.gc.current_sequence = <<>>]
         IN IF i < Len(W.gd.letter_colors) /\ W.gd.letter_colors[i + 1] = "red"
            THEN [W1 EXCEPT !.gd.letter_colors[i + 1] = "white",
                            !.gd.letter_errors = [k \in (DOMAIN le) \ {i} |-> le[k]],
                            !.gd.total_errors = @ - (IF i \in DOMAIN le THEN le[i] ELSE 0)]
            ELSE W1

\* GameController.clear_current_input
ClearCurrentInput(W) ==
    IF W.sm.current_state # "playing" THEN W
    ELSE LET i == W.gd.current_letter_index
             le == W.gd.letter_errors
             W1 == [W EXCEPT !.gc.current_sequence = <<>>]
         IN IF i < Len(W.gd.letter_colors) /\ W.gd.letter_colors[i + 1] = "red"
            THEN [W1 EXCEPT !.gd.letter_colors[i + 1] = "white",
                            !.gd.letter_errors = [k \in (DOMAIN le) \ {i} |-> le[k]]]
            ELSE W1

\* GameController.clear_practice_input
ClearPracticeInput(W) ==
    IF W.sm.current_state # "practice" THEN W
    ELSE [W EXCEPT !.gc.current_sequence = <<>>,
                   !.gd.practice_letter_color = IF @ = "red" THEN "white" ELSE @]

\* GameController.end_game at time t
EndGame(W, t) ==
    LET gd1 == [W.gd EXCEPT !.score = W.gd.words_completed]
        time_taken == GetDifficultySettings(gd1)["game_duration"] - gd1.time_remaining
        W1 == [W EXCEPT !.meg = ForceReset(W.meg),
                        !.gd = gd1,
                        !.hs = AddScore(W.hs, gd1.nickname, gd1.score,
                                        gd1.words_completed, time_taken,
                                        gd1.total_errors, gd1.difficulty)]
    IN ChangeState(W1, "game_over", t)

\* the drift test of _ensure_needle_at_zero: tolerance 0.02 around the baseline
NeedleDrifted(m) == Abs(m.current_value - m.baseline_force) > 2

\* a variant of _ensure_needle_at_zero in which a detected drift ends in an
\* exception
EnsureNeedleAtZeroRaises(W, t) ==
    IF W.gc.last_gpio_state_check = None
    THEN [W EXCEPT !.gc.last_gpio_state_check = Some(t)]
    ELSE IF t - Val(W.gc.last_gpio_state_check) > 50
    THEN IF NeedleDrifted(W.meg) THEN Raise(W)
         ELSE [W EXCEPT !.gc.last_gpio_state_check = Some(t)]
    ELSE W

\* GameController._ensure_needle_at_zero at time t
EnsureNeedleAtZero(W, t) ==
    IF W.gc.last_gpio_state_check = None
    THEN [W EXCEPT !.gc.last_gpio_state_check = Some(t)]
    ELSE IF t - Val(W.gc.last_gpio_state_check) > 50
    THEN [W EXCEPT !.meg = IF NeedleDrifted(W.meg) THEN ForceReset(W.meg) ELSE W.meg,
                   !.gc.last_gpio_state_check = Some(t)]
    ELSE W

\* the letter-gap test of check_timeouts / check_practice_timeouts on the
\* pending sequence
GapElapsed(W, t) ==
    /\ W.gc.current_sequence # <<>>
    /\ W.gc.last_element_time # None
    /\ LetterGapElapsed(t, Val(W.gc.last_element_time))

\* last_element_time = now after the decode (not reached after an exception)
RestartGap(W, t) ==
    IF W.raised THEN W ELSE [W EXCEPT !.gc.last_element_time = Some(t)]

\* check_practice_timeouts: the character-completion part
PracticeDecodeIfDue(W, t) ==
    IF GapElapsed(W, t) THEN RestartGap(CheckPracticeMorseInput(W, t), t) ELSE W

\* a variant of the next-letter part that keeps the schedule after the letter
\* has been generated
NextPracticeLetterKeepsSchedule(W, rnd, t) ==
    IF W.gd.practice_next_letter_time # None
       /\ t >= Val(W.gd.practice_next_letter_time)
    THEN [W EXCEPT !.gd = GeneratePracticeLetter(W.gd, rnd)]
    ELSE W

\* check_practice_timeouts: the next-letter part
NextPracticeLetterIfDue(W, rnd, t) ==
    IF W.gd.practice_next_letter_time # None
       /\ t >= Val(W.gd.practice_next_letter_time)
    THEN [W EXCEPT !.gd = [GeneratePracticeLetter(W.gd, rnd)
                              EXCEPT !.practice_next_letter_time = None]]
    ELSE W

\* GameController.check_practice_timeouts at time t
CheckPracticeTimeouts(W, rnd, t) ==
    IF W.sm.current_state # "practice" THEN W
    ELSE NextPracticeLetterIfDue(
             PracticeDecodeIfDue([W EXCEPT !.gc.last_timeout_check = t], t), rnd, t)

\* check_timeouts: the character-completion part
DecodeIfDue(W, t) ==
    IF GapElapsed(W, t) THEN RestartGap(CheckMorseInput(W), t) ELSE W

\* check_timeouts: the word-timer part
ExpireWordIfDue(W, t) ==
    IF ~W.raised /\ IsWordTimeExpired(W.gd, t) THEN WordTimeExpired(W) ELSE W

\* check_timeouts: end_game when time_remaining has run out
EndGameIfDue(W, t) ==
    IF W.gd.time_remaining <= 0 THEN EndGame(W, t) ELSE W

\* check_timeouts: the game-time part, delta after the previous call
DecreaseGameTime(W, delta, t) ==
    IF W.raised THEN W
    ELSE IF W.gd.game_start_time # None /\ Val(W.gd.game_start_time) # 0
    THEN EndGameIfDue([W EXCEPT !.gd.time_remaining = Max(0, @ - delta)], t)
    ELSE W

\* the Playing part of GameController.check_timeouts at time t
CheckPlayingTimeouts(W, t) ==
    DecreaseGameTime(
        ExpireWordIfDue(DecodeIfDue([W EXCEPT !.gc.last_timeout_check = t], t), t),
        t - W.gc.last_timeout_check, t)

\* GameController.check_timeouts at time t
CheckTimeouts(W, rnd, t) ==
    IF W.sm.current_state = "practice"
    THEN EnsureNeedleAtZero(CheckPracticeTimeouts(W, rnd, t), t)
    ELSE IF W.sm.current_state # "playing" THEN EnsureNeedleAtZero(W, t)
    ELSE CheckPlayingTimeouts(W, t)


\* a variant of confirm_nickname that empties the typed text on a collision
ConfirmNicknameClearsInput(W) ==
    LET name == Strip(W.sm.nickname_input)
    IN IF name = <<>> THEN [ok |-> FALSE, W |-> W]
       ELSE IF ~IsNicknameAvailable(sm_high_scores, name)
       THEN [ok |-> FALSE, W |-> [W EXCEPT !.sm.nickname_error = TRUE,
                                           !.sm.nickname_input = <<>>]]
       ELSE [ok |-> TRUE,
             W |-> [W EXCEPT !.sm.nickname_error = FALSE,
                             !.gd = [(IF W.gd.nickname = <<>> THEN FreshGameData(W.gd)
                                      ELSE W.gd) EXCEPT !.nickname = name]]]

\* GameStateManager.confirm_nickname: [ok, W]
ConfirmNickname(W) ==
    LET name == Strip(W.sm.nickname_input)
    IN IF name = <<>> THEN [ok |-> FALSE, W |-> W]
       ELSE IF ~IsNicknameAvailable(sm_high_scores, name)
       THEN [ok |-> FALSE, W |-> [W EXCEPT !.sm.nickname_error = TRUE]]
       ELSE [ok |-> TRUE,
             W |-> [W EXCEPT !.sm.nickname_error = FALSE,
                             !.gd = [(IF W.gd.nickname = <<>> THEN FreshGameData(W.gd)
                                      ELSE W.gd) EXCEPT !.nickname = name]]]

\* ---------------------------------------------------------------- actions
\* what a handler leaves behind; an exception that leaves the main loop ends
\* the program (MorseApp.run has no handler for it, main() exits)
Commit(W) ==
    /\ state_manager' = W.sm
    /\ game_data' = W.gd
    /\ controller' = W.gc
    /\ word_generator' = W.wg
    /\ megohmmeter' = W.meg
    /\ high_scores' = W.hs
    /\ decoded_char' = W.dec
    /\ app' = IF W.raised THEN "crashed" ELSE IF W.quit THEN "exited" ELSE app
    /\ UNCHANGED <<sm_high_scores, codec, actuator>>

\* One pass of the main loop (MorseApp.run): d centiseconds after the last
\* event the loop calls game_controller.check_timeouts().  The loop polls at
\* TARGET_FPS, faster than the clock resolution used here, so the clock moves
\* only together with a pass of the loop.  The operator's rhythm: the key is
\* held down for whole dits, at most MaxPress; with the key up, time passes
\* a letter gap or a long pause at a time; the time spent in the menus is
\* not varied.
ClockSteps == {0, DIT, LETTER_GAP, LongPause}
Tick ==
    /\ app = "running"
    /\ \E d \in ClockSteps, rnd \in RandomDraws :
        /\ d > 0 => \/ state_manager.current_state = "playing" /\ now <= MaxTime
                    \/ state_manager.current_state = "practice" /\ now <= MaxPracticeTime
        /\ d = DIT => (gpio.is_pressed /\ now + d - gpio.press_start_time <= MaxPress)
        /\ d > DIT => ~gpio.is_pressed
        /\ now' = now + d
        /\ Commit(CheckTimeouts(World, rnd, now + d))
    /\ UNCHANGED gpio

\* the mode the GPIO callbacks of MorseApp route to
Routed(W) == IF W.sm.current_state \in {"playing", "practice"}
             THEN W.sm.current_state ELSE "none"

\* GPIOHandler._on_button_press -> MorseApp._on_gpio_press
ButtonPress ==
    /\ app = "running"
    /\ ~gpio.is_pressed
    /\ gpio' = [gpio EXCEPT !.is_pressed = TRUE, !.press_start_time = now]
    /\ Commit(OnKeyPress(World, Routed(World)))
    /\ UNCHANGED now

\* GPIOHandler._on_button_release -> MorseApp._on_gpio_release
ButtonRelease ==
    /\ app = "running"
    /\ gpio.is_pressed
    /\ Len(controller.current_sequence) < MaxSeqLen
    /\ gpio' = [gpio EXCEPT !.is_pressed = FALSE]
    /\ Commit(OnKeyRelease(World, Routed(World), now - gpio.press_start_time, now))
    /\ UNCHANGED now

\* EventHandler._handle_menu_events
MenuKeys == {"ESCAPE", "UP", "DOWN", "RETURN"}
MenuActions == <<"start", "practice", "high_scores", "exit">>
MenuKeyDown ==
    /\ app = "running"
    /\ state_manager.current_state = "main_menu"
    /\ \E key \in MenuKeys, rnd \in RandomDraws :
        LET i == state_manager.selected_menu_index
            action == MenuActions[i + 1]
        IN Commit(CASE key = "ESCAPE" -> [World EXCEPT !.quit = TRUE]
                    [] key = "UP" -> [World EXCEPT !.sm.selected_menu_index = (i - 1) % 4]
                    [] key = "DOWN" -> [World EXCEPT !.sm.selected_menu_index = (i + 1) % 4]
                    [] key = "RETURN" /\ action = "start" ->
                           ChangeState(World, "difficulty_select", now)
                    [] key = "RETURN" /\ action = "practice" ->
                           StartPracticeMode(World, rnd, now)
                    [] key = "RETURN" /\ action = "high_scores" ->
                           ChangeState(World, "high_scores", now)
                    [] key = "RETURN" /\ action = "exit" -> [World EXCEPT !.quit = TRUE]
                    [] OTHER -> World)
    /\ UNCHANGED <<now, gpio>>

\* EventHandler._handle_difficulty_events
DifficultyActions == <<"easy", "hard", "back">>
DifficultyKeyDown ==
    /\ app = "running"
    /\ state_manager.current_state = "difficulty_select"
    /\ \E key \in MenuKeys :
        LET i == state_manager.selected_difficulty_index
            action == DifficultyActions[i + 1]
        IN Commit(CASE key = "ESCAPE" -> ChangeState(World, "main_menu", now)
                    [] key = "UP" ->
                           [World EXCEPT !.sm.selected_difficulty_index = (i - 1) % 3]
                    [] key = "DOWN" ->
                           [World EXCEPT !.sm.selected_difficulty_index = (i + 1) % 3]
                    [] key = "RETURN" /\ action \in {"easy", "hard"} ->
                           ChangeState([World EXCEPT !.gd = SetDifficulty(@, action)],
                                       "nickname_input", now)
                    [] OTHER -> ChangeState(World, "main_menu", now))
    /\ UNCHANGED <<now, gpio>>

\* EventHandler._handle_nickname_events; NicknameChars are the typed characters
NicknameChars == {"a"}
NicknameKey(key, rnd) ==
    LET input == state_manager.nickname_input
        confirmed == ConfirmNickname(World)
    IN /\ key \in NicknameChars => Len(input) < MaxNickLen
       /\ Commit(CASE key = "ESCAPE" -> ChangeState(World, "main_menu", now)
                   [] key = "RETURN" ->
                          IF confirmed.ok THEN StartNewGame(confirmed.W, rnd, now)
                          ELSE confirmed.W
                   [] key = "BACKSPACE" ->
                          IF input # <<>>
                          THEN [World EXCEPT
                                   !.sm.nickname_input = SubSeq(input, 1, Len(input) - 1),
                                   !.sm.nickname_error = FALSE]
                          ELSE World
                   [] OTHER ->
                          IF Len(input) < 15
                          THEN [World EXCEPT !.sm.nickname_input = Append(input, key),
                                             !.sm.nickname_error = FALSE]
                          ELSE World)

NicknameKeyDown ==
    /\ app = "running"
    /\ state_manager.current_state = "nickname_input"
    /\ \E key \in {"ESCAPE", "RETURN", "BACKSPACE"} \cup NicknameChars, rnd \in RandomDraws :
           NicknameKey(key, rnd)
    /\ UNCHANGED <<now, gpio>>

\* EventHandler._handle_keydown in a mode tested after NICKNAME_INPUT: the
\* chain first evaluates GameState.READY, which the enum does not define, so
\* the KEYDOWN event raises AttributeError inside process_events
ReadyKeyDown ==
    /\ app = "running"
    /\ state_manager.current_state \in {"playing", "practice", "game_over", "high_scores"}
    /\ Commit(Raise(World))
    /\ UNCHANGED <<now, gpio>>

Next ==
    \/ Tick
    \/ ButtonPress
    \/ ButtonRelease
    \/ MenuKeyDown
    \/ DifficultyKeyDown
    \/ NicknameKeyDown
    \/ ReadyKeyDown

Spec == Init /\ [][Next]_vars

\* ------------------------------------------------------ the word generator
\* WordGenerator on its own, with another part of its two lists: "IoT" is
\* the one entry of easy_words that is not upper case
GeneratorEasyWords == << <<"I","o","T">>, <<"O","K">>, <<"N","O">> >>
GeneratorHardWords == << <<"T","A","G">>, <<"L","O","G">> >>
GeneratorDraws == 0..2
GeneratorWordList(wg) ==
    IF wg.current_difficulty = "easy" THEN GeneratorEasyWords ELSE GeneratorHardWords

\* WordGenerator.set_difficulty(difficulty)
GeneratorSetDifficulty ==
    /\ \E difficulty \in {"easy", "hard", "medium"} :
           word_generator' =
               IF difficulty \in {"easy", "hard"}
               THEN [used_words |-> <<>>, current_difficulty |-> difficulty]
               ELSE word_generator
    /\ UNCHANGED <<now, app, state_manager, game_data, controller, megohmmeter,
                   high_scores, sm_high_scores, gpio, decoded_char, codec, actuator>>

\* WordGenerator.reset()
GeneratorReset ==
    /\ word_generator' = [word_generator EXCEPT !.used_words = <<>>]
    /\ UNCHANGED <<now, app, state_manager, game_data, controller, megohmmeter,
                   high_scores, sm_high_scores, gpio, decoded_char, codec, actuator>>

\* current_word = word_generator.get_random_word() (start_new_game,
\* _get_next_word)
GeneratorGetWord ==
    /\ \E rnd \in GeneratorDraws :
           LET pick == GetRandomWordIn(word_generator,
                                       GeneratorWordList(word_generator), rnd)
           IN /\ word_generator' = pick.wg
              /\ game_data' = [game_data EXCEPT !.current_word = pick.word]
    /\ UNCHANGED <<now, app, state_manager, controller, megohmmeter,
                   high_scores, sm_high_scores, gpio, decoded_char, codec, actuator>>

GeneratorNext == GeneratorSetDifficulty \/ GeneratorReset \/ GeneratorGetWord

GeneratorSpec == Init /\ [][GeneratorNext]_vars

\* ------------------------------------------------------ the clear command
\* the program with the two clear handlers called directly, in any mode
ClearCurrentInputCall ==
    /\ app = "running"
    /\ Commit(ClearCurrentInput(World))
    /\ UNCHANGED <<now, gpio>>

ClearPracticeInputCall ==
    /\ app = "running"
    /\ Commit(ClearPracticeInput(World))
    /\ UNCHANGED <<now, gpio>>

ClearNext ==
    \/ Tick
    \/ ButtonPress
    \/ ButtonRelease
    \/ MenuKeyDown
    \/ DifficultyKeyDown
    \/ NicknameKeyDown
    \/ ClearCurrentInputCall
    \/ ClearPracticeInputCall

ClearSpec == Init /\ [][ClearNext]_vars

\* ------------------------------------------- the callback thread and the loop
\* Playing with the two threads that share current_sequence and
\* last_element_time taken statement by statement.  gpiozero runs the release
\* callback on its own thread: gpio.callback holds the `now` of an
\* on_key_release that has appended its symbol and has not yet assigned
\* last_element_time.  controller.pass holds the check_timeouts of the main
\* loop between the decode of check_morse_input and its
\* `self.current_sequence = ""`, and then up to `self.last_element_time = now`.
\* Time passes between the handlers, up to MaxRaceTime.
MaxRaceTime == 208

RaceClock ==
    /\ app = "running"
    /\ state_manager.current_state = "playing"
    /\ gpio.callback = None /\ controller.pass = None
    /\ \E d \in {DIT, LETTER_GAP} :
        /\ now + d <= MaxRaceTime
        /\ gpio.is_pressed => now + d - gpio.press_start_time <= MaxPress
        /\ now' = now + d
    /\ UNCHANGED <<app, state_manager, game_data, controller, word_generator,
                   megohmmeter, high_scores, sm_high_scores, gpio, decoded_char,
                   codec, actuator>>

RacePress == gpio.callback = None /\ ButtonPress

\* on_key_release up to the append of the symbol
ReleaseAppend ==
    /\ app = "running"
    /\ state_manager.current_state = "playing"
    /\ gpio.is_pressed /\ gpio.callback = None
    /\ Len(controller.current_sequence) < MaxSeqLen
    /\ now - gpio.press_start_time >= DEBOUNCE_TIME
    /\ megohmmeter' = KeyReleased(megohmmeter)
    /\ controller' = [controller EXCEPT
                         !.current_sequence =
                             Append(@, Classify(now - gpio.press_start_time))]
    /\ gpio' = [gpio EXCEPT !.callback = Some([now |-> now])]
    /\ UNCHANGED <<now, app, state_manager, game_data, word_generator, high_scores,
                   sm_high_scores, decoded_char, codec, actuator>>

\* on_key_release from `self.last_element_time = now` on, and the return to
\* _on_button_release
ReleaseStamp ==
    /\ gpio.callback # None
    /\ controller' = [controller EXCEPT
                         !.last_element_time = Some(Val(gpio.callback).now)]
    /\ gpio' = [gpio EXCEPT !.callback = None, !.is_pressed = FALSE]
    /\ UNCHANGED <<now, app, state_manager, game_data, word_generator, megohmmeter,
                   high_scores, sm_high_scores, decoded_char, codec, actuator>>

\* a pass of the main loop in which no decode is due
PassNoDecode ==
    /\ app = "running"
    /\ state_manager.current_state = "playing"
    /\ controller.pass = None
    /\ ~GapElapsed(World, now)
    /\ \E rnd \in RandomDraws : Commit(CheckTimeouts(World, rnd, now))
    /\ UNCHANGED <<now, gpio>>

\* check_timeouts up to the point where check_morse_input has decoded
\* current_sequence and marked the letter
PassDecode ==
    /\ app = "running"
    /\ state_manager.current_state = "playing"
    /\ controller.pass = None
    /\ GapElapsed(World, now)
    /\ Commit([CheckMorseInput(World) EXCEPT
                  !.gc = [controller EXCEPT
                             !.last_timeout_check = now,
                             !.pass = Some([pc |-> "decoded",
                                            read |-> controller.current_sequence,
                                            clears |-> CheckMorseInput(World)
                                                           .gc.current_sequence = <<>>,
                                            delta |-> now - controller.last_timeout_check,
                                            t |-> now])]])
    /\ UNCHANGED <<now, gpio>>

\* `self.current_sequence = ""` at the end of check_morse_input
PassClear ==
    /\ app = "running"
    /\ controller.pass # None /\ Val(controller.pass).pc = "decoded"
    /\ controller' = [controller EXCEPT
                         !.current_sequence = IF Val(controller.pass).clears
                                              THEN <<>> ELSE @,
                         !.pass = Some([Val(controller.pass) EXCEPT !.pc = "cleared"])]
    /\ UNCHANGED <<now, app, state_manager, game_data, word_generator, megohmmeter,
                   high_scores, sm_high_scores, gpio, decoded_char, codec, actuator>>

\* `self.last_element_time = now` after check_morse_input and the rest of
\* check_timeouts
PassFinish ==
    /\ app = "running"
    /\ controller.pass # None /\ Val(controller.pass).pc = "cleared"
    /\ Commit(DecreaseGameTime(
                  ExpireWordIfDue(
                      [World EXCEPT
                          !.gc.last_element_time = Some(Val(controller.pass).t),
                          !.gc.pass = None,
                          !.dec = decoded_char],
                      Val(controller.pass).t),
                  Val(controller.pass).delta, Val(controller.pass).t))
    /\ UNCHANGED <<now, gpio>>

RaceNext ==
    \/ MenuKeyDown
    \/ DifficultyKeyDown
    \/ NicknameKeyDown
    \/ RaceClock
    \/ RacePress
    \/ ReleaseAppend
    \/ ReleaseStamp
    \/ PassNoDecode
    \/ PassDecode
    \/ PassClear
    \/ PassFinish

RaceSpec == Init /\ [][RaceNext]_vars

\* ------------------------------------------------- four-symbol patterns
\* the program keyed with patterns of up to MaxPatternLen symbols: the
\* shortest patterns REVERSE_MORSE_CODE_DICT has no entry for have four
MaxPatternLen == 4

\* GPIOHandler._on_button_release -> MorseApp._on_gpio_release
PatternRelease ==
    /\ app = "running"
    /\ gpio.is_pressed
    /\ Len(controller.current_sequence) < MaxPatternLen
    /\ gpio' = [gpio EXCEPT !.is_pressed = FALSE]
    /\ Commit(OnKeyRelease(World, Routed(World), now - gpio.press_start_time, now))
    /\ UNCHANGED now

PatternNext ==
    \/ Tick
    \/ ButtonPress
    \/ PatternRelease
    \/ MenuKeyDown
    \/ DifficultyKeyDown
    \/ NicknameKeyDown
    \/ ReadyKeyDown

PatternSpec == Init /\ [][PatternNext]_vars

\* ---------------------------------------------- the debounce configuration
\* the program with config.DEBOUNCE_TIME as an input: every release is handled
\* under one of the DebounceValues (0 is the shipped value)
DebounceValues == {0, 2 * DIT}

\* GPIOHandler._on_button_release -> MorseApp._on_gpio_release with
\* DEBOUNCE_TIME = debounce
ConfiguredRelease(debounce) ==
    /\ app = "running"
    /\ gpio.is_pressed
    /\ Len(controller.current_sequence) < MaxSeqLen
    /\ gpio' = [gpio EXCEPT !.is_pressed = FALSE]
    /\ Commit(OnKeyReleaseDebounced(World, Routed(World),
                                    now - gpio.press_start_time, now, debounce))
    /\ UNCHANGED now

DebounceRelease == \E debounce \in DebounceValues : ConfiguredRelease(debounce)

DebounceNext ==
    \/ Tick
    \/ ButtonPress
    \/ DebounceRelease
    \/ MenuKeyDown
    \/ DifficultyKeyDown
    \/ NicknameKeyDown
    \/ ReadyKeyDown

DebounceSpec == Init /\ [][DebounceNext]_vars

\* ---------------------------------------------------------- step predicates
\* a key release that the GPIO callback routes to on_key_release or
\* on_practice_key_release
ReleaseStep == ButtonRelease /\ Routed(World) # "none"

\* a pass of the main loop while a Playing session is running
PlayingTick == Tick /\ state_manager.current_state = "playing"

\* a pass of the main loop in Playing or Practice
SessionTick == Tick /\ state_manager.current_state \in {"playing", "practice"}

\* the letter gap has run out for a non-empty pending sequence at the time
\* of the pass that ends the step
GapDue ==
    /\ controller.current_sequence # <<>>
    /\ controller.last_element_time # None
    /\ now' - Val(controller.last_element_time) >= LETTER_GAP

\* the pass decodes the letter the word expects / the last letter of the word
MatchDue ==
    /\ GapDue
    /\ game_data.current_letter_index < Len(game_data.current_word)
    /\ Decode(controller.current_sequence)
           = game_data.current_word[game_data.current_letter_index + 1]
LastLetterDue ==
    MatchDue /\ game_data.current_letter_index + 1 = Len(game_data.current_word)

\* the pass decodes a valid character that is not the expected letter
MismatchDue ==
    /\ GapDue
    /\ game_data.current_letter_index < Len(game_data.current_word)
    /\ Decode(controller.current_sequence) # ""
    /\ Decode(controller.current_sequence)
           # game_data.current_word[game_data.current_letter_index + 1]

\* the wall-clock delta of the pass that ends the step
TickDelta == now' - controller.last_timeout_check

\* streak_count as a number (0 while the attribute is absent)
StreakOf(gd) == IF gd.streak_count = None THEN 0 ELSE Val(gd.streak_count)

LastSymbol(seq) == seq[Len(seq)]


\* ------------------------------------------------------------------ claims
\* C1: a key release that is routed to Playing or Practice with a press
\* duration d >= DEBOUNCE_TIME appends exactly one symbol to the pending
\* sequence, '.' iff d < (DOT_DURATION + DASH_DURATION) / 2 and '-' otherwise;
\* the boundary is 0.32 s: 0.20 s is a dot, 0.32 s and 0.40 s are dashes.
C1_ReleaseAppendsClassifiedSymbol ==
    [][ReleaseStep /\ now - gpio.press_start_time >= DEBOUNCE_TIME =>
        LET d == now - gpio.press_start_time
            old == controller.current_sequence
            new == controller'.current_sequence
        IN /\ Len(new) = Len(old) + 1
           /\ SubSeq(new, 1, Len(old)) = old
           /\ LastSymbol(new) \in {".", "-"}
           /\ LastSymbol(new) = "." <=> 2 * d < DOT_DURATION + DASH_DURATION
           /\ DOT_DURATION + DASH_DURATION = 2 * 32
           /\ d = 32 => LastSymbol(new) = "-"
           /\ Classify(20) = "." /\ Classify(32) = "-" /\ Classify(40) = "-"]_vars

\* a key held for exactly 0.32 s has just been released in Playing and the
\* symbol it appended is a dash
C1_BoundaryPressIsDash ==
    /\ state_manager.current_state = "playing"
    /\ ~gpio.is_pressed
    /\ now - gpio.press_start_time = 32
    /\ controller.last_element_time = Some(now)
    /\ controller.current_sequence # <<>>
    /\ LastSymbol(controller.current_sequence) = "-"

\* C2: with a non-empty pending sequence, the first pass of the main loop at
\* a time t >= last_element_time + LETTER_GAP makes one decode attempt and
\* leaves the pending sequence empty, whatever the decode gives; a pass with
\* nothing pending makes no decode attempt.
C2_TimeoutDecodesAndClears ==
    [][SessionTick =>
        /\ GapDue => decoded_char' # None /\ controller'.current_sequence = <<>>
        /\ controller.current_sequence = <<>> => decoded_char' = None]_vars

\* C3: the letter gap is measured from the last appended symbol: a pass of
\* the main loop makes a decode attempt only if LETTER_GAP has passed since
\* last_element_time, a pass earlier than that leaves the pending sequence as
\* it is, and every accepted release restarts the gap at the release time.
C3_GapMeasuredFromLastSymbol ==
    [][/\ Tick /\ decoded_char' # None =>
              now' - Val(controller.last_element_time) >= LETTER_GAP
       /\ (SessionTick /\ controller.last_element_time # None
              /\ now' - Val(controller.last_element_time) < LETTER_GAP) =>
              /\ decoded_char' = None
              /\ controller'.current_sequence = controller.current_sequence
       /\ ReleaseStep => controller'.last_element_time = Some(now')]_vars

\* the two symbols of 'A', keyed more than LETTER_GAP after the start of the
\* sequence all told, have been decoded as one character
C3_TwoSymbolsDecodedAsOne ==
    /\ state_manager.current_state = "playing"
    /\ decoded_char = Some("A")
    /\ controller.current_sequence = <<>>
    /\ now - gpio.press_start_time >= LETTER_GAP + 2 * DIT

\* C4: in Playing, a decoded valid character that differs from the expected
\* letter marks that letter red, adds 1 to its letter_errors entry and to
\* total_errors, leaves current_letter_index and words_completed unchanged
\* and clears the pending sequence.
C4_MismatchKeepsLetter ==
    [][PlayingTick /\ MismatchDue =>
        LET i == game_data.current_letter_index
            before == IF i \in DOMAIN game_data.letter_errors
                      THEN game_data.letter_errors[i] ELSE 0
        IN /\ game_data'.letter_colors[i + 1] = "red"
           /\ i \in DOMAIN game_data'.letter_errors
           /\ game_data'.letter_errors[i] = before + 1
           /\ game_data'.total_errors = game_data.total_errors + 1
           /\ game_data'.current_letter_index = i
           /\ game_data'.words_completed = game_data.words_completed
           /\ controller'.current_sequence = <<>>]_vars

\* the first letter of the word has been mistyped once
C4_FirstLetterMistyped ==
    /\ state_manager.current_state = "playing"
    /\ decoded_char # None /\ Val(decoded_char) # ""
    /\ game_data.letter_colors[1] = "red"
    /\ 0 \in DOMAIN game_data.letter_errors /\ game_data.letter_errors[0] = 1
    /\ game_data.total_errors = 1
    /\ game_data.current_letter_index = 0
    /\ game_data.words_completed = 0
    /\ controller.current_sequence = <<>>


\* C5: in Playing, a decoded character equal to the expected letter marks it
\* green and advances current_letter_index by one; when it is the last letter
\* of the word, words_completed and streak_count grow by 1 and the next word
\* starts with current_letter_index 0 and every letter white.
C5_MatchAdvancesAndCompletes ==
    [][PlayingTick /\ MatchDue =>
        LET i == game_data.current_letter_index
        IN IF LastLetterDue
           THEN /\ game_data'.words_completed = game_data.words_completed + 1
                /\ game_data'.streak_count = Some(StreakOf(game_data) + 1)
                /\ game_data'.current_letter_index = 0
                /\ game_data'.current_word # <<>>
                /\ \A k \in DOMAIN game_data'.letter_colors :
                       game_data'.letter_colors[k] = "white"
                /\ Len(game_data'.letter_colors) = Len(game_data'.current_word)
           ELSE /\ game_data'.letter_colors[i + 1] = "green"
                /\ game_data'.current_letter_index = i + 1
                /\ game_data'.words_completed = game_data.words_completed]_vars

\* C6: when the word time limit has run out at a pass of the main loop in
\* Playing (nothing pending to decode), words_completed and total_errors are
\* unchanged, streak_count is 0, the next word starts (current_letter_index 0,
\* letters white, pending sequence empty, word timer restarted at the time of
\* the pass) and the mode is still Playing.
C6_WordTimeExpiryStartsNextWord ==
    [][PlayingTick /\ ~GapDue /\ IsWordTimeExpired(game_data, now') =>
        /\ state_manager'.current_state = "playing"
        /\ game_data'.words_completed = game_data.words_completed
        /\ game_data'.total_errors = game_data.total_errors
        /\ game_data'.streak_count = Some(0)
        /\ game_data'.current_letter_index = 0
        /\ \A k \in DOMAIN game_data'.letter_colors :
               game_data'.letter_colors[k] = "white"
        /\ controller'.current_sequence = <<>>
        /\ game_data'.word_start_time = Some(now')]_vars

\* C7: in Playing, every pass of the main loop lowers time_remaining by the
\* wall-clock delta since the previous pass, plus the bonus of a word
\* completion if one is granted; no other step changes time_remaining, and
\* the start of a next word does not reset it.
C7_TimeRemainingFollowsClock ==
    [][state_manager.current_state = "playing" /\ app = "running" =>
        IF PlayingTick
        THEN \E bonus \in {0} \cup (IF LastLetterDue
                                    THEN {SettingsGet(GetDifficultySettings(game_data),
                                                      "time_bonus_amount"),
                                          SettingsGet(GetDifficultySettings(game_data),
                                                      "streak_bonus_amount")}
                                    ELSE {}) :
                 game_data'.time_remaining = game_data.time_remaining - TickDelta + bonus
        ELSE game_data'.time_remaining = game_data.time_remaining]_vars

\* C8: the mode leaves Playing only for GameOver and only on a pass of the
\* main loop that brings time_remaining to 0 or below; every other pass
\* leaves the session in Playing and running, so that it can still reach
\* GameOver (a session that stops in Playing never reaches GameOver).
C8_GameOverOnlyOnSessionTimeout ==
    [][state_manager.current_state = "playing" /\ app = "running" =>
        /\ state_manager'.current_state \in {"playing", "game_over"}
        /\ state_manager'.current_state = "game_over" <=>
               (PlayingTick /\ game_data'.time_remaining <= 0)
        /\ (PlayingTick /\ state_manager'.current_state = "playing") =>
               app' = "running"]_vars

\* C9: at Hard difficulty a word completion counts the streak and adds the
\* configured bonus (15 s) to time_remaining exactly when the streak_count
\* after the increment is positive and a multiple of 3; no other step adds
\* time to time_remaining.
C9_HardBonusEveryThirdStreak ==
    [][(state_manager.current_state = "playing" /\ app = "running"
            /\ game_data.difficulty = "hard") =>
        IF PlayingTick /\ LastLetterDue
        THEN /\ DIFFICULTY_SETTINGS["hard"]["time_bonus_amount"] = 1500
             /\ game_data'.streak_count # None
             /\ game_data'.time_remaining - (game_data.time_remaining - TickDelta)
                    = IF StreakOf(game_data') > 0 /\ StreakOf(game_data') % 3 = 0
                      THEN 1500 ELSE 0
        ELSE game_data'.time_remaining <= game_data.time_remaining]_vars

\* C10: at Easy difficulty a streak threshold and a bonus are configured, a
\* word completion counts the streak, and the bonus is added to
\* time_remaining when streak_count reaches the threshold for the first time
\* in the session and on no other completion.
C10_EasyBonusAtThresholdOnce ==
    [][(PlayingTick /\ LastLetterDue /\ game_data.difficulty = "easy") =>
        LET settings == DIFFICULTY_SETTINGS["easy"]
            threshold == SettingsGet(settings, "streak_bonus_every_words")
            amount == SettingsGet(settings, "streak_bonus_amount")
            first == game_data'.words_completed = threshold
        IN /\ threshold > 0 /\ amount > 0
           /\ game_data'.streak_count # None
           /\ game_data'.time_remaining - (game_data.time_remaining - TickDelta)
                  = IF StreakOf(game_data') = threshold /\ first THEN amount ELSE 0]_vars


\* C11: the time limit of the word of a Playing session is
\* baseTime + length(word) * perLetterTime + count(word, 'O') * oLetterBonus
\* with the constants of the session's difficulty (Easy 15 / 2.5 / 1.5 s,
\* Hard 8 / 2.0 / 1.0 s), and the word timer runs from the start of the word.
C11_WordTimeLimitFormula ==
    (state_manager.current_state = "playing" /\ game_data.current_word # <<>>) =>
        LET word == game_data.current_word
            easy == game_data.difficulty = "easy"
            baseTime == IF easy THEN 1500 ELSE 800
            perLetterTime == IF easy THEN 250 ELSE 200
            oLetterBonus == IF easy THEN 150 ELSE 100
            os == Cardinality({i \in DOMAIN word : word[i] = "O"})
        IN /\ game_data.difficulty \in {"easy", "hard"}
           /\ game_data.word_time_limit
                  = baseTime + Len(word) * perLetterTime + os * oLetterBonus
           /\ game_data.word_start_time = game_data.game_start_time

\* a Playing session at Easy runs with a word that has an O (21.5 s)
C11_EasyWordWithO ==
    /\ state_manager.current_state = "playing"
    /\ game_data.difficulty = "easy"
    /\ game_data.current_word = <<"N", "O">>
    /\ game_data.word_time_limit = 2150


\* ------------------------------------------------- the word timer on its own
\* GameStateManager.set_difficulty and start_word_timer called directly on the
\* constructed program: the difficulty is chosen before the first word, then
\* words follow one another as in _get_next_word (current_word = word,
\* start_word_timer(word)).
TimerLetters == {"O", "o", "T"}
TimerWords == UNION {[1..n -> TimerLetters] : n \in 0..MaxWordLen}

SetDifficultyCall ==
    /\ game_data.word_start_time = None
    /\ \E difficulty \in {"easy", "hard"} :
           game_data' = SetDifficulty(game_data, difficulty)
    /\ UNCHANGED <<now, app, state_manager, controller, word_generator,
                   megohmmeter, high_scores, sm_high_scores, gpio, decoded_char,
                   codec, actuator>>

StartWordTimerCall ==
    /\ \E word \in TimerWords :
           game_data' = StartWordTimer([game_data EXCEPT !.current_word = word],
                                       word, now)
    /\ UNCHANGED <<now, app, state_manager, controller, word_generator,
                   megohmmeter, high_scores, sm_high_scores, gpio, decoded_char,
                   codec, actuator>>

WordTimerNext == SetDifficultyCall \/ StartWordTimerCall

WordTimerSpec == Init /\ [][WordTimerNext]_vars

\* the number of letters O of a word, as start_word_timer counts them
CountO(word) == Count(Upper(word), "O")

\* C12 (as stated): at a fixed difficulty, a word that is at least as long as
\* the word before it has a time limit that is at least as large.
C12_LimitMonotoneInLength ==
    [][(game_data.word_start_time # None
            /\ Len(game_data.current_word) <= Len(game_data'.current_word)) =>
        game_data.word_time_limit <= game_data'.word_time_limit]_vars

\* C12 (amended): at a fixed difficulty, a word that is at least as long as
\* the word before it and has at least as many letters O has a time limit
\* that is at least as large.
C12_LimitMonotoneInLengthAndOs ==
    [][(game_data.word_start_time # None
            /\ Len(game_data.current_word) <= Len(game_data'.current_word)
            /\ CountO(game_data.current_word) <= CountO(game_data'.current_word)) =>
        game_data.word_time_limit <= game_data'.word_time_limit]_vars

\* the timer of a four-letter word with two letters O has been started at Hard
C12_LongWordWithOs ==
    /\ game_data.difficulty = "hard"
    /\ game_data.word_start_time # None
    /\ Len(game_data.current_word) = 4
    /\ CountO(game_data.current_word) = 2
    /\ game_data.word_time_limit = 800 + 4 * 200 + 2 * 100


\* ------------------------------------------------ the leaderboard on its own
\* HighScoreManager.add_score called directly on the controller's manager,
\* with results drawn from small sets; "medium" is a difficulty the manager
\* does not know.
ScoreValues == {1, 2}
WordsValues == {1, 2}
TimeValues == {3000, 6000}
ErrorValues == {0, 1}
ScoreDifficulties == {"easy", "hard", "medium"}

AddScoreCall ==
    /\ Len(high_scores["easy"]) + Len(high_scores["hard"]) < MaxScores
    /\ \E score \in ScoreValues, words_completed \in WordsValues,
          time_taken \in TimeValues, errors \in ErrorValues,
          difficulty \in ScoreDifficulties :
           high_scores' = AddScore(high_scores, <<"a">>, score, words_completed,
                                   time_taken, errors, difficulty)
    /\ UNCHANGED <<now, app, state_manager, game_data, controller, word_generator,
                   megohmmeter, sm_high_scores, gpio, decoded_char, codec,
                   actuator>>

LeaderboardNext == AddScoreCall

LeaderboardSpec == Init /\ [][LeaderboardNext]_vars

\* record a comes before record b under the rule score descending, words
\* completed descending, errors ascending, time ascending
RanksBefore(a, b) ==
    TupleLess(<<0 - a.score, 0 - a.words_completed, a.errors, a.time_taken>>,
              <<0 - b.score, 0 - b.words_completed, b.errors, b.time_taken>>)

\* C13: after any sequence of add_score calls each difficulty's leaderboard is
\* sorted by score descending, then words completed descending, then errors
\* ascending, then time ascending: no record stands behind one it comes before.
C13_BoardsSortedByFourKeys ==
    \A d \in DOMAIN high_scores : \A i, j \in DOMAIN high_scores[d] :
        i < j => ~RanksBefore(high_scores[d][j], high_scores[d][i])

\* the board s with the record at position i taken out
WithoutAt(s, i) == SubSeq(s, 1, i - 1) \o SubSeq(s, i + 1, Len(s))

\* C14: get_rank of a result is 1 plus the number of stored records that come
\* before it under (score desc, words desc, errors asc, time asc), and it is
\* the 1-based position of the record on the board once add_score has
\* inserted it.
C14_RankIsPositionAfterInsert ==
    [][\A score \in ScoreValues, words_completed \in WordsValues,
          time_taken \in TimeValues, errors \in ErrorValues, d \in {"easy", "hard"} :
          LET entry == [nickname |-> <<"a">>, score |-> score,
                        words_completed |-> words_completed,
                        time_taken |-> time_taken, errors |-> errors,
                        difficulty |-> d]
              rank == GetRank(high_scores, score, words_completed, errors, d)
          IN high_scores' = AddScore(high_scores, <<"a">>, score, words_completed,
                                     time_taken, errors, d) =>
                /\ rank = 1 + Cardinality({i \in DOMAIN high_scores[d] :
                                              RanksBefore(high_scores[d][i], entry)})
                /\ \E i \in DOMAIN high_scores'[d] :
                       /\ high_scores'[d][i] = entry
                       /\ WithoutAt(high_scores'[d], i) = high_scores[d]
                       /\ rank = i]_vars


\* ------------------------------------------------ registration and sessions
\* The menus and the nickname screen with their handlers, a session that runs
\* to its end (GameController.end_game called directly, as check_timeouts
\* does when the session time is used up) and the way back from the game-over
\* screen (change_state(MAIN_MENU), the RETURN branch of
\* _handle_game_over_events).  The scores file of the run is empty or holds
\* one record of an earlier run.
EarlierRecord ==
    [nickname |-> <<"A">>, score |-> 1, words_completed |-> 1,
     time_taken |-> 12000, errors |-> 0, difficulty |-> "easy"]
ScoreFiles == {[easy |-> <<>>, hard |-> <<>>],
               [easy |-> <<EarlierRecord>>, hard |-> <<>>]}

RegistrationInit == \E scores \in ScoreFiles : Constructed(scores)

EndGameCall ==
    /\ app = "running"
    /\ state_manager.current_state = "playing"
    /\ Len(high_scores["easy"]) + Len(high_scores["hard"]) < MaxScores
    /\ Commit(EndGame(World, now))
    /\ UNCHANGED <<now, gpio>>

GameOverReturn ==
    /\ app = "running"
    /\ state_manager.current_state = "game_over"
    /\ Commit(ChangeState(World, "main_menu", now))
    /\ UNCHANGED <<now, gpio>>

RegistrationNext ==
    \/ MenuKeyDown
    \/ DifficultyKeyDown
    \/ NicknameKeyDown
    \/ EndGameCall
    \/ GameOverReturn

RegistrationSpec == RegistrationInit /\ [][RegistrationNext]_vars

\* ------------------------------------------------------ repeated sessions
\* the program with the handlers that end a session called directly:
\* _handle_practice_events with K_ESCAPE, end_game, and
\* _handle_game_over_events with K_RETURN
PracticeEscape ==
    /\ app = "running"
    /\ state_manager.current_state = "practice"
    /\ Commit(ChangeState(World, "main_menu", now))
    /\ UNCHANGED <<now, gpio>>

\* a pass of the main loop a letter gap after the last one (or at once), the
\* key being up, up to MaxSessionTime
MaxSessionTime == 208
SessionPass ==
    /\ app = "running"
    /\ ~gpio.is_pressed
    /\ \E d \in {0, LETTER_GAP}, rnd \in RandomDraws :
        /\ d > 0 => /\ state_manager.current_state \in {"playing", "practice"}
                    /\ now + d <= MaxSessionTime
        /\ now' = now + d
        /\ Commit(CheckTimeouts(World, rnd, now + d))
    /\ UNCHANGED gpio

\* end_game, for at most MaxSessions Playing sessions
MaxSessions == 1
SessionEndGame ==
    /\ app = "running"
    /\ state_manager.current_state = "playing"
    /\ Len(high_scores["easy"]) + Len(high_scores["hard"]) < MaxSessions
    /\ Commit(EndGame(World, now))
    /\ UNCHANGED <<now, gpio>>

SessionNext ==
    \/ SessionPass
    \/ ButtonPress
    \/ ButtonRelease
    \/ MenuKeyDown
    \/ DifficultyKeyDown
    \/ NicknameKeyDown
    \/ PracticeEscape
    \/ SessionEndGame
    \/ GameOverReturn

SessionSpec == Init /\ [][SessionNext]_vars

\* a nickname as the uniqueness test compares it: trimmed and case-folded
Folded(nickname) == Lower(Strip(nickname))

\* the records of both leaderboards, each with its place
StoredRecords(scores) ==
    {p \in (DOMAIN scores) \X (1..MaxScores) : p[2] <= Len(scores[p[1]])}

\* C15: within one run no two leaderboard records, over the Easy and the Hard
\* board together, have nicknames that are equal after trimming and case
\* folding, and confirm_nickname fails for a nickname that a session has
\* already recorded.
C15_NicknamesGloballyUnique ==
    /\ \A p, q \in StoredRecords(high_scores) :
           p # q => Folded(high_scores[p[1]][p[2]].nickname)
                        # Folded(high_scores[q[1]][q[2]].nickname)
    /\ (state_manager.current_state = "nickname_input"
            /\ \E p \in StoredRecords(high_scores) :
                   Folded(high_scores[p[1]][p[2]].nickname)
                       = Folded(state_manager.nickname_input)) =>
           ~ConfirmNickname(World).ok

\* RETURN on the nickname screen with a typed nickname that is already on a
\* leaderboard the state manager knows
ConfirmCollides ==
    /\ NicknameKeyDown
    /\ \E rnd \in RandomDraws : NicknameKey("RETURN", rnd)
    /\ Strip(state_manager.nickname_input) # <<>>
    /\ ~IsNicknameAvailable(sm_high_scores, Strip(state_manager.nickname_input))

\* C16: a nickname collision is a failure value and not an exception: the
\* program keeps running in the nickname screen, the typed text and the
\* session data are as before, no game is started and nothing is recorded;
\* only the error flag of the screen is raised, and the operator can edit.
C16_CollisionLeavesStateUnchanged ==
    [][ConfirmCollides =>
        /\ app' = "running"
        /\ state_manager' = [state_manager EXCEPT !.nickname_error = TRUE]
        /\ state_manager'.current_state = "nickname_input"
        /\ UNCHANGED <<game_data, controller, word_generator, megohmmeter,
                       high_scores, sm_high_scores>>]_vars

\* the nickname screen shows the collision of the typed "a" with the "A" of
\* an earlier run
C16_CollisionReported ==
    /\ app = "running"
    /\ state_manager.current_state = "nickname_input"
    /\ state_manager.nickname_input = <<"a">>
    /\ state_manager.nickname_error
    /\ sm_high_scores["easy"] = <<EarlierRecord>>


\* ------------------------------------------------- the decoder on its own
\* A MorseDecoder as the module's own example uses it: a text is encoded and
\* the Morse string is decoded again, character by character (encode, decode)
\* or as a message (encode_message, decode_message).
MessageChars == {"A", "O", ",", " "}
Messages == UNION {[1..n -> MessageChars] : n \in 0..MaxMsgLen}
TableKeys == {MORSE_CODE_DICT[i][1] : i \in DOMAIN MORSE_CODE_DICT}

EncodeDecodeCall ==
    /\ \E key \in TableKeys :
           codec' = [call |-> "encode", text |-> KeyChars(key),
                     morse |-> Encode(KeyChars(key)),
                     decoded |-> KeyChars(Decode(Encode(KeyChars(key))))]
    /\ UNCHANGED <<now, app, state_manager, game_data, controller, word_generator,
                   megohmmeter, high_scores, sm_high_scores, gpio, decoded_char,
                   actuator>>

MessageCall ==
    /\ \E text \in Messages :
           codec' = [call |-> "encode_message", text |-> text,
                     morse |-> EncodeMessage(text),
                     decoded |-> DecodeMessage(EncodeMessage(text))]
    /\ UNCHANGED <<now, app, state_manager, game_data, controller, word_generator,
                   megohmmeter, high_scores, sm_high_scores, gpio, decoded_char,
                   actuator>>

CodecNext == EncodeDecodeCall \/ MessageCall

CodecSpec == Init /\ [][CodecNext]_vars

\* C17: the codec table is a bijection and round-trips: no two characters of
\* the table share a code, and decode(encode(c)) = c for every key c of the
\* table.
C17_TableRoundTrips ==
    /\ \A i, j \in DOMAIN MORSE_CODE_DICT :
           i # j => /\ MORSE_CODE_DICT[i][1] # MORSE_CODE_DICT[j][1]
                    /\ MORSE_CODE_DICT[i][2] # MORSE_CODE_DICT[j][2]
    /\ codec.call = "encode" => codec.decoded = codec.text

\* the characters the table knows, and a message built from them with single
\* blanks between its words
SupportedChars ==
    UNION {{KeyChars(key)[i] : i \in DOMAIN KeyChars(key)} : key \in TableKeys} \ {" "}
SingleSpaced(text) ==
    /\ \A i \in DOMAIN text : text[i] \in SupportedChars \cup {" "}
    /\ text # <<>> => text[1] # " " /\ text[Len(text)] # " "
    /\ \A i \in 1..(Len(text) - 1) : ~(text[i] = " " /\ text[i + 1] = " ")

\* C18: decode_message(encode_message(m)) = m for every message m built only
\* from supported characters with single blanks between its words.
C18_MessageRoundTrips ==
    (codec.call = "encode_message" /\ SingleSpaced(codec.text)) =>
        codec.decoded = codec.text


\* ------------------------------------------------ the megohmmeter on its own
\* The commands of the controller sent one after another by one caller, and
\* the transition workers running beside them.  A command that joins a worker
\* (or starts one) is taken in two steps, so that worker steps fall between
\* them as well; the join ends when the worker has gone or after its timeout.
ActuatorCommands ==
    {"key_pressed", "key_released", "apply_dot", "apply_dash", "force_reset"}
FreeSlots == {k \in 1..MaxWorkers : actuator.workers[k] = None}

\* the worker threads after a command that took the controller from m to m1:
\* the running ones have been asked to stop if it cleared transition_running
StopRequested(workers, m, m1) ==
    [k \in DOMAIN workers |->
        IF workers[k] # None /\ m.transition_running /\ ~m1.transition_running
        THEN Some([Val(workers[k]) EXCEPT !.stop_requested = TRUE])
        ELSE workers[k]]

\* a command carried out by a controller with no worker thread (the mock
\* never starts one, so its join never waits)
WholeCommand(m, cmd) ==
    CASE cmd = "key_pressed" -> KeyPressed(m)
      [] cmd = "key_released" -> KeyReleased(m)
      [] cmd = "force_reset" -> ForceReset(m)
      [] cmd = "apply_dot" -> ApplyDot(m)
      [] OTHER -> ApplyDash(m)

CommandBegin ==
    /\ actuator.call = "none"
    /\ actuator.commands < MaxCommands
    /\ \E cmd \in ActuatorCommands :
        /\ megohmmeter' = BeginCommand(megohmmeter, cmd)
        /\ actuator' = [actuator EXCEPT
                           !.call = IF CommandWaits(megohmmeter, cmd) THEN cmd ELSE "none",
                           !.commands = @ + 1,
                           !.last = cmd,
                           !.twin = IF @ = None THEN None
                                    ELSE Some(WholeCommand(Val(@), cmd)),
                           !.workers = StopRequested(@, megohmmeter,
                                                     BeginCommand(megohmmeter, cmd))]
    /\ UNCHANGED <<now, app, state_manager, game_data, controller, word_generator,
                   high_scores, sm_high_scores, gpio, decoded_char, codec>>

CommandEnd ==
    /\ actuator.call # "none"
    /\ actuator.call \in {"apply_dot", "apply_dash"} => FreeSlots # {}
    /\ megohmmeter' = EndCommand(megohmmeter, actuator.call)
    /\ actuator' =
           IF actuator.call \in {"apply_dot", "apply_dash"}
           THEN [actuator EXCEPT
                    !.call = "none",
                    !.workers[CHOOSE k \in FreeSlots : \A j \in FreeSlots : k <= j] =
                        Some(NewWorker(EndCommand(megohmmeter, actuator.call)))]
           ELSE [actuator EXCEPT !.call = "none"]
    /\ UNCHANGED <<now, app, state_manager, game_data, controller, word_generator,
                   high_scores, sm_high_scores, gpio, decoded_char, codec>>

WorkerStep ==
    /\ \E k \in 1..MaxWorkers :
        /\ actuator.workers[k] # None
        /\ megohmmeter' = WorkerController(megohmmeter, Val(actuator.workers[k]))
        /\ actuator' = [actuator EXCEPT
                           !.workers[k] = WorkerAfter(megohmmeter, Val(actuator.workers[k]))]
    /\ UNCHANGED <<now, app, state_manager, game_data, controller, word_generator,
                   high_scores, sm_high_scores, gpio, decoded_char, codec>>

ActuatorNext == CommandBegin \/ CommandEnd \/ WorkerStep

ActuatorSpec == Init /\ [][ActuatorNext]_vars

\* the real controller and a MockMegohmmeterController (actuator.twin) built
\* with the same configuration and sent the same commands
TwinInit ==
    /\ ConstructedWith([easy |-> <<>>, hard |-> <<>>], Some(MegohmmeterInit(TRUE)))
    /\ ~megohmmeter.mock

TwinSpec == TwinInit /\ [][ActuatorNext]_vars

\* C19: the value of the meter coil stays within [0, 1] (0..100 hundredths)
\* in every state, through any sequence of key_pressed, key_released,
\* apply_dot, apply_dash and force_reset and any interleaving of them with
\* the steps of the transition workers.
C19_CurrentValueWithinUnitRange ==
    megohmmeter.current_value >= 0 /\ megohmmeter.current_value <= 100

\* a worker of the real controller is on its way from the dot amplitude to
\* the dash amplitude and has written a value between the two
C19_WorkerHalfWay ==
    /\ ~megohmmeter.mock
    /\ megohmmeter.current_value > MEGOHMMETER_DOT_AMPLITUDE
    /\ megohmmeter.current_value < MEGOHMMETER_DASH_AMPLITUDE
    /\ \E k \in 1..MaxWorkers :
          /\ actuator.workers[k] # None
          /\ Val(actuator.workers[k]).i > 0
          /\ Val(actuator.workers[k]).target_value = MEGOHMMETER_DASH_AMPLITUDE


\* ------------------------------------------------------- the key cycle
\* C20: in every key cycle of Playing or Practice the megohmmeter gets its
\* commands in the order key_pressed, apply_dot or apply_dash (by the
\* classified symbol), key_released: the apply command finds the key down and
\* starts the needle towards the amplitude before the release returns it.
C20_ApplyRunsBeforeRelease ==
    [][(ReleaseStep /\ megohmmeter.is_key_pressed) =>
        megohmmeter' =
            KeyReleased(IF Classify(now - gpio.press_start_time) = "."
                        THEN ApplyDot(megohmmeter) ELSE ApplyDash(megohmmeter))]_vars


\* C21: apply_dot or apply_dash issued while is_key_pressed is false is a
\* no-op in the real and in the mock controller.  Every accepted release
\* sends the apply command after key_released, with the key flag cleared: the
\* controller is then exactly as key_released left it (value, pull-back,
\* transition flag), and no transition worker has been started.
C21_ApplyWithKeyUpIsNoOp ==
    [][ReleaseStep =>
        /\ megohmmeter' = KeyReleased(megohmmeter)
        /\ megohmmeter'.transition_thread = megohmmeter.transition_thread
        /\ actuator' = actuator]_vars

\* a dash has been keyed on the real controller: the symbol is pending, the
\* needle is back at zero and no worker was started
C21_DashReleasedOnRealController ==
    /\ ~megohmmeter.mock
    /\ ~megohmmeter.is_key_pressed
    /\ controller.current_sequence # <<>>
    /\ controller.current_sequence[Len(controller.current_sequence)] = "-"
    /\ megohmmeter.current_value = 0
    /\ megohmmeter.transition_thread = None


\* the transition workers that are alive, and those inside their loop
LiveWorkers == {k \in 1..MaxWorkers : actuator.workers[k] # None}

\* C22: at most one transition worker is active on the controller at any
\* time, also when the bounded join of _smooth_transition_to times out: two
\* workers are never alive together, and a worker that leaves never clears
\* transition_running while another worker is alive.
C22_AtMostOneWorker ==
    [][/\ Cardinality(LiveWorkers') <= 1
       /\ (WorkerStep /\ Cardinality(LiveWorkers') < Cardinality(LiveWorkers)
              /\ megohmmeter.transition_running) =>
           LiveWorkers' = {}]_vars


\* C23: key_released cancels any transition in flight and snaps the value to
\* zero: when it has returned the key flag is cleared, the pull-back coil is
\* on again and the value is 0, and until the next command no step of a
\* worker started before writes the value (it stays 0).
C23_ReleaseSilencesWorkers ==
    [][/\ (CommandEnd /\ actuator.call = "key_released") =>
              /\ ~megohmmeter'.is_key_pressed
              /\ megohmmeter'.current_value = 0
              /\ ~megohmmeter.mock =>
                     megohmmeter'.pullback_value = megohmmeter.baseline_force
       /\ (WorkerStep /\ actuator.call = "none" /\ actuator.last = "key_released") =>
              megohmmeter'.current_value = 0]_vars


\* C24: force_reset, from any state (key down, in the middle of a transition
\* or idle), leaves no transition running, clears the key flag and leaves a
\* resting state that the drift check accepts (the value within 0.02 of the
\* baseline force), so that the check does not call force_reset again.
C24_ForceResetLeavesAcceptedRest ==
    [][(CommandEnd /\ actuator.call = "force_reset") =>
        /\ ~megohmmeter'.transition_running
        /\ ~megohmmeter'.is_key_pressed
        /\ ~NeedleDrifted(megohmmeter')]_vars


\* ------------------------------------------- the two megohmmeter controllers
\* what the game keeps of a handler's result: everything but the controller
GameView(W) ==
    [sm |-> W.sm, gd |-> W.gd, gc |-> W.gc, wg |-> W.wg, hs |-> W.hs,
     dec |-> W.dec, raised |-> W.raised, quit |-> W.quit]

\* the other implementation of the controller (the mock for the real one and
\* the other way round) as the game finds it: after construction, with the
\* key down, after a release and after a reset
OtherActuator(m) ==
    {MegohmmeterInit(~m.mock), KeyPressed(MegohmmeterInit(~m.mock)),
     KeyReleased(MegohmmeterInit(~m.mock)), ForceReset(MegohmmeterInit(~m.mock))}

\* the program with the controller m in the place of its own
WorldWith(m) == [World EXCEPT !.meg = m]

\* C25: classification and scoring do not depend on the controller in use:
\* for the same press, release and tick the pending sequence, the decoded
\* character, the word progress, the error counts and the score come out the
\* same with the real and with the mock controller, and the handler ends in
\* an exception with the one exactly when it does with the other.
C25_GameIndependentOfActuator ==
    (app = "running" /\ state_manager.current_state \in {"playing", "practice"}) =>
        /\ \A d \in ClockSteps, rnd \in RandomDraws :
               LET own == GameView(CheckTimeouts(World, rnd, now + d))
               IN \A m \in OtherActuator(megohmmeter) :
                      GameView(CheckTimeouts(WorldWith(m), rnd, now + d)) = own
        /\ LET own == GameView(OnKeyPress(World, Routed(World)))
           IN \A m \in OtherActuator(megohmmeter) :
                  GameView(OnKeyPress(WorldWith(m), Routed(World))) = own
        /\ LET own == GameView(OnKeyRelease(World, Routed(World),
                                            now - gpio.press_start_time, now))
           IN \A m \in OtherActuator(megohmmeter) :
                  GameView(OnKeyRelease(WorldWith(m), Routed(World),
                                        now - gpio.press_start_time, now)) = own


\* a Playing session on the real controller in which a letter has been keyed
\* and matched
C25_LetterMatchedOnRealController ==
    /\ ~megohmmeter.mock
    /\ app = "running"
    /\ state_manager.current_state = "playing"
    /\ game_data.current_letter_index >= 1


\* a release of a press of duration d handled under DEBOUNCE_TIME = debounce
\* and routed to Playing or Practice
RoutedRelease(debounce) == ConfiguredRelease(debounce) /\ Routed(World) # "none"

\* C26: a release whose press duration is below the debounce time appends no
\* symbol and leaves last_element_time alone; with a debounce time of 0 every
\* release (durations are >= 0) appends its symbol and stamps
\* last_element_time with the time of the release.
C26_DebounceFiltersShortPress ==
    [][/\ \A debounce \in DebounceValues :
              (RoutedRelease(debounce) /\ now - gpio.press_start_time < debounce) =>
                  /\ controller'.current_sequence = controller.current_sequence
                  /\ controller'.last_element_time = controller.last_element_time
       /\ RoutedRelease(0) =>
              /\ now - gpio.press_start_time >= 0
              /\ controller'.current_sequence =
                     Append(controller.current_sequence,
                            Classify(now - gpio.press_start_time))
              /\ controller'.last_element_time = Some(now)]_vars

\* a press of one dit has been released in Playing after an earlier symbol,
\* and the release was filtered: the key is up at the time of the release,
\* while the last symbol is older than the press
C26_ShortPressFiltered ==
    /\ state_manager.current_state = "playing"
    /\ app = "running"
    /\ ~gpio.is_pressed
    /\ now - gpio.press_start_time = DIT
    /\ controller.current_sequence # <<>>
    /\ controller.last_element_time # None
    /\ Val(controller.last_element_time) < gpio.press_start_time
    /\ controller.last_timeout_check = now


\* C27: a release filtered by the debounce test changes nothing at all: the
\* session state (state manager, game data, controller fields, generator,
\* scores) and the actuator state (is_key_pressed, current_value, pull-back)
\* are the same after the release as before it.
C27_FilteredReleaseChangesNothing ==
    [][\A debounce \in DebounceValues :
           (RoutedRelease(debounce) /\ now - gpio.press_start_time < debounce) =>
               /\ UNCHANGED <<state_manager, game_data, controller, word_generator,
                              high_scores, decoded_char>>
               /\ megohmmeter'.is_key_pressed = megohmmeter.is_key_pressed
               /\ megohmmeter'.current_value = megohmmeter.current_value
               /\ megohmmeter'.pullback_value = megohmmeter.pullback_value]_vars


\* the pass of the main loop that ends the step decodes a pending sequence
\* REVERSE_MORSE_CODE_DICT has no entry for
UnknownDue == SessionTick /\ GapDue /\ Decode(controller.current_sequence) = ""

\* C28: in Playing and in Practice, the timeout-triggered decode of a pending
\* sequence that matches no table entry clears the sequence and nothing else:
\* the decode raises no exception (an exception in the same pass is the word
\* timer's), and letter colours, current index, error counters, completed
\* counts and streak are what they were; in Practice the target and its colour
\* change only if the letter scheduled earlier is due in the same pass.
C28_UnknownPatternOnlyClears ==
    [][UnknownDue =>
        /\ controller'.current_sequence = <<>>
        /\ decoded_char' = Some("")
        /\ ~CheckMorseInput(World).raised
        /\ ~CheckPracticeMorseInput(World, now').raised
        /\ app' = "crashed" =>
               /\ state_manager.current_state = "playing"
               /\ IsWordTimeExpired(game_data, now')
        /\ game_data'.letter_colors = game_data.letter_colors
        /\ game_data'.current_letter_index = game_data.current_letter_index
        /\ game_data'.current_word = game_data.current_word
        /\ game_data'.letter_errors = game_data.letter_errors
        /\ game_data'.total_errors = game_data.total_errors
        /\ game_data'.words_completed = game_data.words_completed
        /\ game_data'.streak_count = game_data.streak_count
        /\ game_data'.practice_errors = game_data.practice_errors
        /\ game_data'.practice_completed = game_data.practice_completed
        /\ (\/ game_data.practice_next_letter_time = None
            \/ now' < Val(game_data.practice_next_letter_time)) =>
               /\ game_data'.practice_letter = game_data.practice_letter
               /\ game_data'.practice_letter_color = game_data.practice_letter_color
               /\ game_data'.practice_next_letter_time
                      = game_data.practice_next_letter_time]_vars

\* a Playing pass has just decoded an unknown pattern and the game goes on
C28_UnknownPatternDecodedInPlaying ==
    /\ app = "running"
    /\ state_manager.current_state = "playing"
    /\ decoded_char = Some("")
    /\ controller.current_sequence = <<>>
    /\ controller.last_element_time = Some(now)


\* a pass of the main loop in Practice, and what its decode finds
PracticeTick == Tick /\ state_manager.current_state = "practice"
PracticeCorrectDue ==
    PracticeTick /\ GapDue
        /\ Decode(controller.current_sequence) = game_data.practice_letter
PracticeWrongDue ==
    PracticeTick /\ GapDue
        /\ Decode(controller.current_sequence) \notin {"", game_data.practice_letter}
UppercaseLetters == {PracticeLetters[i] : i \in DOMAIN PracticeLetters}

\* no letter scheduled by an earlier correct decode is due at the pass that
\* ends the step.  The loop runs at TARGET_FPS: a letter scheduled 0.75 s
\* after a decode is generated by an earlier pass than the one in which the
\* letter gap (0.96 s) of a later symbol runs out; a pass of a stalled loop
\* that finds both due decodes first and generates the letter second.
NoLetterDue ==
    \/ game_data.practice_next_letter_time = None
    \/ now' < Val(game_data.practice_next_letter_time)

\* C29: in Practice a correct decode marks the letter green, counts it and
\* schedules the next letter 0.75 s later, the pass returning at once; the
\* target stays as it is while the scheduled time has not come, and the first
\* pass at or after it replaces the target once (the schedule is removed) by a
\* random uppercase letter with the colour reset to white; an incorrect decode
\* adds one to practice_errors, marks the letter red and keeps the target.
C29_PracticeDecodeAndNextLetter ==
    [][/\ PracticeCorrectDue =>
              /\ game_data'.practice_letter_color = "green"
              /\ game_data'.practice_completed = game_data.practice_completed + 1
              /\ game_data'.practice_next_letter_time = Some(now' + 75)
              /\ game_data'.practice_letter = game_data.practice_letter
              /\ app' = "running"
       /\ (state_manager.current_state = "practice" /\ NoLetterDue) =>
              game_data'.practice_letter = game_data.practice_letter
       /\ (PracticeTick /\ ~PracticeCorrectDue /\ ~NoLetterDue) =>
              /\ game_data'.practice_letter \in UppercaseLetters
              /\ game_data'.practice_letter_color = "white"
              /\ game_data'.practice_next_letter_time = None
       /\ PracticeWrongDue =>
              /\ game_data'.practice_errors = game_data.practice_errors + 1
              /\ CheckPracticeMorseInput(World, now').gd.practice_letter_color = "red"
              /\ CheckPracticeMorseInput(World, now').gd.practice_letter
                     = game_data.practice_letter
              /\ NoLetterDue =>
                     /\ game_data'.practice_letter_color = "red"
                     /\ game_data'.practice_letter = game_data.practice_letter]_vars

\* a Practice session in which a letter was keyed correctly and the letter
\* scheduled then has been generated
C29_NextLetterGenerated ==
    /\ app = "running"
    /\ state_manager.current_state = "practice"
    /\ game_data.practice_completed >= 1
    /\ game_data.practice_letter_color = "white"
    /\ game_data.practice_next_letter_time = None


\* the words of the current list the exclusion list holds, compared as
\* get_random_word compares them
AllExcluded(wg) ==
    \A i \in DOMAIN GeneratorWordList(wg) :
        InSeq(GeneratorWordList(wg)[i], wg.used_words)

\* C30: get_random_word returns a word that is not in the exclusion list it
\* was called with (after a reset: the empty list); the list never holds more
\* than 20 entries, and a call that would make it 21 leaves the last 10; the
\* list is emptied by a call only if every word of the current difficulty was
\* in it.
C30_WordNotExcluded ==
    [][GeneratorGetWord =>
        LET used == word_generator.used_words
            word == game_data'.current_word
        IN /\ Len(word_generator'.used_words) <= 20
           /\ Len(used) = 20 =>
                  word_generator'.used_words = Append(SubSeq(used, 12, 20), word)
           /\ (used # <<>> /\ word_generator'.used_words = <<word>>) =>
                  AllExcluded(word_generator)
           /\ ~AllExcluded(word_generator) => ~InSeq(word, used)]_vars


RecordCount(scores) == Len(scores["easy"]) + Len(scores["hard"])

\* the transition to GameOver adds the one record of the session that ends
FinalizedOnce ==
    LET gd == game_data
    IN /\ RecordCount(high_scores') = RecordCount(high_scores) + 1
       /\ Len(high_scores'[gd.difficulty]) = Len(high_scores[gd.difficulty]) + 1
       /\ \E i \in DOMAIN high_scores'[gd.difficulty] :
              LET r == high_scores'[gd.difficulty][i]
              IN /\ r.nickname = gd.nickname
                 /\ r.score = gd.words_completed
                 /\ r.words_completed = gd.words_completed
                 /\ r.errors = gd.total_errors
                 /\ WithoutAt(high_scores'[gd.difficulty], i) = high_scores[gd.difficulty]

\* C32: each Playing session is finalized exactly once: a running Playing
\* session ends only by the transition to GameOver, that transition adds
\* exactly one record to the leaderboard of the session's difficulty (the
\* session's nickname, score = words_completed, words_completed,
\* total_errors), and a pass of the main loop in GameOver adds none.
C32_SessionFinalizedOnce ==
    [][/\ (app = "running" /\ state_manager.current_state = "playing") =>
              /\ app' = "running"
              /\ state_manager'.current_state \in {"playing", "game_over"}
       /\ (state_manager.current_state = "playing"
               /\ state_manager'.current_state = "game_over") => FinalizedOnce
       /\ (state_manager.current_state = "game_over" /\ Tick) =>
              high_scores' = high_scores]_vars


\* C33: in every Playing state current_letter_index is between 0 and the
\* length of the word, letter_colors has one entry per letter, every letter
\* before the current one is green, every letter after it is white, and the
\* keys of letter_errors are positions of the word.
C33_WordProgressWellFormed ==
    state_manager.current_state = "playing" =>
        LET word == game_data.current_word
            index == game_data.current_letter_index
            colors == game_data.letter_colors
        IN /\ index \in 0..Len(word)
           /\ Len(colors) = Len(word)
           /\ \A k \in 1..Len(colors) :
                  /\ k <= index => colors[k] = "green"
                  /\ k > index + 1 => colors[k] = "white"
           /\ \A k \in DOMAIN game_data.letter_errors : k \in 0..(Len(word) - 1)

\* a Playing session in which the first letter was matched and the second
\* letter was then keyed wrongly
C33_SecondLetterWrong ==
    /\ state_manager.current_state = "playing"
    /\ app = "running"
    /\ game_data.current_letter_index = 1
    /\ Len(game_data.letter_colors) >= 2
    /\ game_data.letter_colors[1] = "green"
    /\ game_data.letter_colors[2] = "red"
    /\ 1 \in DOMAIN game_data.letter_errors


\* the worker in slot k takes the step
WorkerStepOf(k) ==
    WorkerStep /\ actuator.workers[k] # None /\ actuator'.workers[k] # actuator.workers[k]

\* what is left of a worker's run: the steps not yet written and the position
\* inside the current round of the loop
WorkerRank(w) ==
    IF w = None THEN 0
    ELSE IF Val(w).pc = "exit" THEN 1
    ELSE 3 * (Val(w).steps - Val(w).i)
         + (CASE Val(w).pc = "start" -> 3 [] Val(w).pc = "check" -> 2 [] OTHER -> 1)

\* C34: a transition started by apply_dot / apply_dash runs 7 steps (dot,
\* 0.15 s) or 12 steps (dash, 0.25 s); every write sets current_value to the
\* linear interpolation between the start value and the target; every step of
\* a worker brings it nearer to its end, and its last step leaves
\* transition_running false; a worker that no command asked to stop runs all
\* its steps and ends with current_value at its target; a worker that was
\* asked to stop leaves the loop at its next test of transition_running.
C34_TransitionRunsFixedSteps ==
    [][\A k \in 1..MaxWorkers : WorkerStepOf(k) =>
        LET w == Val(actuator.workers[k])
        IN /\ w.steps = IF w.target_value = megohmmeter.dot_amplitude THEN 7 ELSE 12
           /\ w.target_value \in {megohmmeter.dot_amplitude, megohmmeter.dash_amplitude}
           /\ w.pc = "write" =>
                  megohmmeter'.current_value =
                      Val(w.start_value)
                          + ((w.target_value - Val(w.start_value)) * (w.i + 1)) \div w.steps
           /\ WorkerRank(actuator'.workers[k]) < WorkerRank(actuator.workers[k])
           /\ w.pc = "exit" => ~megohmmeter'.transition_running
           /\ (w.pc = "exit" /\ ~w.stop_requested) =>
                  /\ w.i = w.steps
                  /\ megohmmeter.current_value = w.target_value
           /\ (w.pc = "check" /\ w.stop_requested) =>
                  Val(actuator'.workers[k]).pc = "exit"]_vars


C36_NoSymbolLostOrEarly ==
    [][/\ (PassClear /\ Val(controller.pass).clears) =>
              controller.current_sequence = Val(controller.pass).read
       /\ PassDecode => gpio.callback = None]_vars


\* C37: no pass of the main loop ends in an unhandled error: check_timeouts
\* returns normally, also in the pass that completes the word, and after a
\* completed word the session goes on in Playing at the first letter of a
\* next word.
C37_TickNeverRaises ==
    [][Tick => /\ app' = "running"
               /\ (PlayingTick /\ LastLetterDue) =>
                      /\ state_manager'.current_state = "playing"
                      /\ game_data'.current_letter_index = 0
                      /\ game_data'.letter_colors
                             = Repeat("white", Len(game_data'.current_word))]_vars


\* C38: a key-down event is dispatched to the handler of the current mode
\* without error in every mode, and Escape in HighScores or Practice leads
\* to the main menu: no key-down step ends in an unhandled error, and a
\* key-down in HighScores or Practice leaves the mode unchanged or goes to
\* MainMenu.
C38_KeyDownDispatched ==
    [][(MenuKeyDown \/ DifficultyKeyDown \/ NicknameKeyDown \/ ReadyKeyDown) =>
           /\ app' # "crashed"
           /\ state_manager.current_state \in {"high_scores", "practice"} =>
                  state_manager'.current_state
                      \in {state_manager.current_state, "main_menu"}]_vars


\* no command is in progress and no transition worker is alive
Settled ==
    /\ actuator.call = "none"
    /\ \A k \in 1..MaxWorkers : actuator.workers[k] = None

\* C39: the real and the mock controller are observationally equivalent:
\* after the same sequence of key_pressed, key_released, apply_dot,
\* apply_dash and force_reset, once every transition has settled, both have
\* the same is_key_pressed and the same current_value.
C39_MockMatchesReal ==
    Settled =>
        /\ megohmmeter.is_key_pressed = Val(actuator.twin).is_key_pressed
        /\ megohmmeter.current_value = Val(actuator.twin).current_value


\* the step adds a record of the ending session whose time_taken is the time
\* from the start of the session to the step
RecordsPlayTime ==
    \E i \in DOMAIN high_scores'[game_data.difficulty] :
        /\ high_scores'[game_data.difficulty][i].nickname = game_data.nickname
        /\ high_scores'[game_data.difficulty][i].time_taken
               = now' - Val(game_data.game_start_time)
        /\ WithoutAt(high_scores'[game_data.difficulty], i)
               = high_scores[game_data.difficulty]

\* C40: the time stored in a session's leaderboard record is the play time
\* that has elapsed from the start of the session to GameOver: a running
\* Playing session goes on or ends in GameOver, and the step to GameOver
\* records now - game_start_time as time_taken.
C40_RecordedTimeIsPlayTime ==
    [][(app = "running" /\ state_manager.current_state = "playing") =>
           /\ app' # "crashed"
           /\ state_manager'.current_state = "game_over" => RecordsPlayTime]_vars

====
